---- MODULE Spec2Model ----
(***************************************************************************)
(* State-machine model of the voiceclone kiosk's text-to-speech streaming  *)
(* pipeline.  Each component of the repository is one group of variables   *)
(* with its own initial predicate, next-state relation and specification:  *)
(*                                                                         *)
(*   WsSpec      server/websocket.ts: the /ws/tts connection handler and   *)
(*               the activeConnections registry                            *)
(*   RegSpec     services/tts WebSocketTtsService.registerClient           *)
(*   SimpleSpec  services/tts/SimpleTtsService.ts: synthesize              *)
(*   BridgeSpec  services/tts WebSocketTtsService.streamSynthesize         *)
(*                                                                         *)
(* A specification leaves the variables of the other components at their   *)
(* initial values.                                                         *)
(***************************************************************************)
EXTENDS Integers, Sequences, FiniteSets, TLC

(***************************************************************************)
(* Bounds of the model.                                                    *)
(***************************************************************************)
\* number of client sockets that may connect to /ws/tts
NSock == 3
\* number of client messages handled in one behaviour of WsSpec
MaxMsgs == 3

(***************************************************************************)
(* Generic helpers.                                                        *)
(***************************************************************************)
\* the sequence s without its i-th element
RemoveAt(s, i) == SubSeq(s, 1, i - 1) \o SubSeq(s, i + 1, Len(s))

\* readyState after ws.close(): an OPEN socket starts the closing handshake,
\* its 'close' event comes later; closing twice changes nothing
CloseSocket(st) == IF st = "OPEN" THEN "CLOSING" ELSE st

(***************************************************************************)
(* server/websocket.ts                                                     *)
(***************************************************************************)
VARIABLES
    sockState,          \* socket -> "IDLE" | "OPEN" | "CLOSING" | "CLOSED"
    connectionInfo,     \* socket -> index into conns, 0 = null  (closure variable)
    conns,              \* heap of TtsConnection objects, in allocation order
    activeConnections,  \* sessionId -> index into conns, 0 = no entry
    storage,            \* sessionId -> "absent" | "novoice" | "voice"
    handlers,           \* message handlers suspended at an await, in arrival order
    out,                \* socket -> sequence of JSON message types sent to it
    msgCount,           \* client messages received so far
    caught              \* history: socket -> rejections of synthesize caught for it

wsVars == <<sockState, connectionInfo, conns, activeConnections, storage,
            handlers, out, msgCount, caught>>

Sockets == 1..NSock
TestSessionId == "test-session-1"
SessionIds == {"s1", TestSessionId}
Undefined == "undefined"
DefaultModel == "speech-02-turbo"
DefaultSpeed == "1.1"
\* the (model, speed) pairs an 'init' and a 'refresh' message may carry
InitSettings == {<<Undefined, Undefined>>}
MsgSettings == {<<Undefined, Undefined>>, <<"speech-02-hd", "2.0">>}

\* sessionId === 'test-session-123' || startsWith('test-streaming-') || startsWith('test-session-')
IsTestSession(id) == id = TestSessionId

\* x || dflt for an optional string
OrDefault(x, dflt) == IF x = Undefined \/ x = "" THEN dflt ELSE x

\* ws.send(JSON.stringify({type: t})): delivered only while the socket is OPEN
Send(o, st, s, t) == IF st[s] = "OPEN" THEN [o EXCEPT ![s] = Append(@, t)] ELSE o

\* storage.getSession(id)?.clonedVoiceId is truthy
HasVoice(id) == storage[id] = "voice"

WsInit ==
    /\ sockState = [s \in Sockets |-> "IDLE"]
    /\ connectionInfo = [s \in Sockets |-> 0]
    /\ conns = <<>>
    /\ activeConnections = [id \in SessionIds |-> 0]
    /\ storage = [id \in SessionIds |-> IF IsTestSession(id) THEN "absent" ELSE "novoice"]
    /\ handlers = <<>>
    /\ out = [s \in Sockets |-> <<>>]
    /\ msgCount = 0
    /\ caught = [s \in Sockets |-> 0]

\* wss.on('connection'): a new socket, connectionInfo = null
Connect(s) ==
    /\ sockState[s] = "IDLE"
    /\ IF s = 1 THEN TRUE ELSE sockState[s - 1] # "IDLE"
    /\ sockState' = [sockState EXCEPT ![s] = "OPEN"]
    /\ connectionInfo' = [connectionInfo EXCEPT ![s] = 0]
    /\ UNCHANGED <<caught, conns, activeConnections, storage, handlers, out, msgCount>>

\* a 'message' event can be delivered until the socket's 'close' event
CanReceive(s) == sockState[s] \in {"OPEN", "CLOSING"} /\ msgCount < MaxMsgs

\* 'init' message, up to `await storage.getSession(sessionId)`
RecvInit(s, sid, model, speed) ==
    /\ CanReceive(s)
    /\ msgCount' = msgCount + 1
    /\ IF sid = ""
       THEN /\ out' = Send(out, sockState, s, "error")
            /\ sockState' = [sockState EXCEPT ![s] = CloseSocket(@)]
            /\ UNCHANGED handlers
       ELSE /\ handlers' = Append(handlers,
                   [sock |-> s, kind |-> "init", pc |-> "lookup", sid |-> sid,
                    model |-> model, speed |-> speed, voiceId |-> FALSE])
            /\ UNCHANGED <<out, sockState>>
    /\ UNCHANGED <<caught, connectionInfo, conns, activeConnections, storage>>

\* 'init' message, from the resolution of getSession to the end of the handler
InitResume(i) ==
    LET h == handlers[i]
        s == h.sock
        found == storage[h.sid] # "absent" \/ IsTestSession(h.sid)
        voiceId == IsTestSession(h.sid) \/ HasVoice(h.sid)
        existing == activeConnections[h.sid]
        \* existingConnection.ws.close()
        closed == IF existing # 0
                  THEN [sockState EXCEPT ![conns[existing].ws] = CloseSocket(@)]
                  ELSE sockState
        info == [ws |-> s, sessionId |-> h.sid, isProcessing |-> FALSE,
                 model |-> OrDefault(h.model, DefaultModel),
                 speed |-> OrDefault(h.speed, DefaultSpeed)]
    IN  /\ h.kind = "init" /\ h.pc = "lookup"
        /\ handlers' = RemoveAt(handlers, i)
        /\ IF ~found
           THEN /\ out' = Send(out, sockState, s, "error")
                /\ sockState' = [sockState EXCEPT ![s] = CloseSocket(@)]
                /\ UNCHANGED <<connectionInfo, conns, activeConnections>>
           ELSE /\ sockState' = closed
                /\ conns' = Append(conns, info)
                /\ connectionInfo' = [connectionInfo EXCEPT ![s] = Len(conns) + 1]
                /\ activeConnections' = [activeConnections EXCEPT ![h.sid] = Len(conns) + 1]
                /\ out' = Send(out, closed, s, IF voiceId THEN "ready" ELSE "pending")
        /\ UNCHANGED <<caught, storage, msgCount>>

\* 'refresh' message, up to `await storage.getSession(connectionInfo.sessionId)`
RecvRefresh(s, model, speed) ==
    LET c == connectionInfo[s]
    IN  /\ CanReceive(s)
        /\ msgCount' = msgCount + 1
        /\ IF c = 0
           THEN /\ out' = Send(out, sockState, s, "error")
                /\ UNCHANGED <<conns, handlers>>
           ELSE /\ conns' = [conns EXCEPT
                       ![c].model = IF model # Undefined THEN model ELSE @,
                       ![c].speed = IF speed # Undefined THEN speed ELSE @]
                /\ handlers' = Append(handlers,
                       [sock |-> s, kind |-> "refresh", pc |-> "lookup",
                        sid |-> conns[c].sessionId,
                        model |-> model, speed |-> speed, voiceId |-> FALSE])
                /\ UNCHANGED out
        /\ UNCHANGED <<caught, sockState, connectionInfo, activeConnections, storage>>

\* 'refresh' message, after getSession has resolved
RefreshResume(i) ==
    LET h == handlers[i]
    IN  /\ h.kind = "refresh" /\ h.pc = "lookup"
        /\ handlers' = RemoveAt(handlers, i)
        /\ out' = Send(out, sockState, h.sock, IF HasVoice(h.sid) THEN "ready" ELSE "pending")
        /\ UNCHANGED <<caught, sockState, connectionInfo, conns, activeConnections, storage,
                       msgCount>>

\* a speak handler that does not check the text
RecvSpeakAnyText(s, hasText) ==
    LET c == connectionInfo[s]
    IN  /\ CanReceive(s)
        /\ msgCount' = msgCount + 1
        /\ IF c = 0 \/ conns[c].isProcessing
           THEN /\ out' = Send(out, sockState, s, "error")
                /\ UNCHANGED handlers
           ELSE /\ handlers' = Append(handlers,
                       [sock |-> s, kind |-> "speak", pc |-> "lookup",
                        sid |-> conns[c].sessionId,
                        model |-> Undefined, speed |-> Undefined, voiceId |-> FALSE])
                /\ UNCHANGED out
        /\ UNCHANGED <<caught, sockState, connectionInfo, conns, activeConnections, storage>>

\* 'speak' / 'synthesize' message, up to `await storage.getSession(...)`
RecvSpeak(s, hasText) ==
    LET c == connectionInfo[s]
    IN  /\ CanReceive(s)
        /\ msgCount' = msgCount + 1
        /\ IF c = 0 \/ conns[c].isProcessing \/ ~hasText
           THEN /\ out' = Send(out, sockState, s, "error")
                /\ UNCHANGED handlers
           ELSE /\ handlers' = Append(handlers,
                       [sock |-> s, kind |-> "speak", pc |-> "lookup",
                        sid |-> conns[c].sessionId,
                        model |-> Undefined, speed |-> Undefined, voiceId |-> FALSE])
                /\ UNCHANGED out
        /\ UNCHANGED <<caught, sockState, connectionInfo, conns, activeConnections, storage>>

\* 'speak' message, from the resolution of getSession to `await synthesize(...)`
SpeakResume(i) ==
    LET h == handlers[i]
        s == h.sock
        c == connectionInfo[s]
        isTest == IsTestSession(conns[c].sessionId)
        found == storage[h.sid] # "absent" \/ isTest
        voiceId == HasVoice(h.sid) \/ isTest
    IN  /\ h.kind = "speak" /\ h.pc = "lookup"
        /\ IF ~found \/ ~voiceId
           THEN /\ out' = Send(out, sockState, s, "error")
                /\ sockState' = [sockState EXCEPT ![s] = CloseSocket(@)]
                /\ handlers' = RemoveAt(handlers, i)
                /\ UNCHANGED conns
           ELSE /\ conns' = [conns EXCEPT ![c].isProcessing = TRUE]
                /\ handlers' = [handlers EXCEPT ![i].pc = "synth",
                                                ![i].model = OrDefault(conns[c].model, DefaultModel),
                                                ![i].speed = OrDefault(conns[c].speed, DefaultSpeed),
                                                ![i].voiceId = TRUE]
                /\ UNCHANGED <<out, sockState>>
        /\ UNCHANGED <<caught, connectionInfo, activeConnections, storage, msgCount>>

\* a catch / finally that leaves isProcessing set
SynthSettleKeepsFlag(i, ok) ==
    LET h == handlers[i]
        s == h.sock
    IN  /\ h.kind = "speak" /\ h.pc = "synth"
        /\ handlers' = RemoveAt(handlers, i)
        /\ out' = IF ok THEN out ELSE Send(out, sockState, s, "error")
        /\ caught' = IF ok THEN caught ELSE [caught EXCEPT ![s] = @ + 1]
        /\ UNCHANGED <<sockState, connectionInfo, conns, activeConnections, storage,
                       msgCount>>

\* 'speak' message, after the synthesize promise settled: catch and finally
SynthSettle(i, ok) ==
    LET h == handlers[i]
        s == h.sock
        c == connectionInfo[s]
    IN  /\ h.kind = "speak" /\ h.pc = "synth"
        /\ handlers' = RemoveAt(handlers, i)
        /\ out' = IF ok THEN out ELSE Send(out, sockState, s, "error")
        /\ caught' = IF ok THEN caught ELSE [caught EXCEPT ![s] = @ + 1]
        /\ conns' = IF c # 0 THEN [conns EXCEPT ![c].isProcessing = FALSE] ELSE conns
        /\ UNCHANGED <<sockState, connectionInfo, activeConnections, storage,
                       msgCount>>

\* activeConnections.delete(connectionInfo.sessionId) of the close and error listeners
DeleteOwnEntry(s) ==
    IF connectionInfo[s] # 0
    THEN [activeConnections EXCEPT ![conns[connectionInfo[s]].sessionId] = 0]
    ELSE activeConnections

\* ws.on('close')
CloseEvent(s) ==
    /\ sockState[s] \in {"OPEN", "CLOSING"}
    /\ sockState' = [sockState EXCEPT ![s] = "CLOSED"]
    /\ activeConnections' = DeleteOwnEntry(s)
    /\ UNCHANGED <<caught, connectionInfo, conns, storage, handlers, out, msgCount>>

\* ws.on('error'): the library tears the socket down afterwards
ErrorEvent(s) ==
    /\ sockState[s] = "OPEN"
    /\ sockState' = [sockState EXCEPT ![s] = "CLOSING"]
    /\ activeConnections' = DeleteOwnEntry(s)
    /\ UNCHANGED <<caught, connectionInfo, conns, storage, handlers, out, msgCount>>

\* closeSessionWebSocket(sessionId)
CloseSessionWebSocket(id) ==
    LET c == activeConnections[id]
    IN  /\ c # 0
        /\ sockState' = [sockState EXCEPT ![conns[c].ws] = CloseSocket(@)]
        /\ activeConnections' = [activeConnections EXCEPT ![id] = 0]
        /\ UNCHANGED <<caught, connectionInfo, conns, storage, handlers, out, msgCount>>

\* the voice-cloning enrollment stores clonedVoiceId on the session
VoiceCloned(id) ==
    /\ storage[id] = "novoice"
    /\ storage' = [storage EXCEPT ![id] = "voice"]
    /\ UNCHANGED <<caught, sockState, connectionInfo, conns, activeConnections, handlers,
                   out, msgCount>>

\* the session row is deleted from the store
SessionDeleted(id) ==
    /\ storage[id] # "absent"
    /\ storage' = [storage EXCEPT ![id] = "absent"]
    /\ UNCHANGED <<caught, sockState, connectionInfo, conns, activeConnections, handlers,
                   out, msgCount>>

(***************************************************************************)
(* Claims about server/websocket.ts.                                       *)
(***************************************************************************)
\* speak handlers of socket s whose synthesize call is in flight
InFlight(s) == {i \in 1..Len(handlers) :
                   handlers[i].sock = s /\ handlers[i].kind = "speak" /\ handlers[i].pc = "synth"}

\* C1: a speak that arrives on a connection after an earlier speak was accepted
\* and before that one has settled starts no synthesis: no later-arrived speak
\* handler is in synthesis while an earlier-arrived one of the same socket is
\* still pending (awaiting the session lookup or its synthesis).
C1_SecondSpeakStartsNoSynthesis ==
    \A i, j \in 1..Len(handlers) :
        (/\ i < j
         /\ handlers[i].sock = handlers[j].sock
         /\ handlers[i].kind = "speak"
         /\ handlers[j].kind = "speak")
        => handlers[j].pc # "synth"

\* C2: while a synthesis is in flight on a socket, the isProcessing flag of the
\* socket's current connection record is true.
C2_ProcessingWhileInFlight ==
    \A s \in Sockets :
        InFlight(s) # {} =>
            /\ connectionInfo[s] # 0
            /\ conns[connectionInfo[s]].isProcessing

\* the connection record of the latest successful init for id, 0 if none
LatestConn(id) ==
    LET cs == {c \in 1..Len(conns) : conns[c].sessionId = id}
    IN  IF cs = {} THEN 0 ELSE CHOOSE c \in cs : \A d \in cs : d <= c

\* C3: the socket of the latest successful init for a session id, while it is
\* OPEN and still initialised for that id, stays registered under the id: the
\* close or error event of a superseded socket does not remove it.
C3_StaleCloseKeepsNewer ==
    \A id \in SessionIds :
        LET c == LatestConn(id)
        IN  (/\ c # 0
             /\ sockState[conns[c].ws] = "OPEN"
             /\ connectionInfo[conns[c].ws] = c)
            => activeConnections[id] = c

\* OPEN sockets whose current connection record is for session id
OpenFor(id) == {s \in Sockets :
                   /\ sockState[s] = "OPEN"
                   /\ connectionInfo[s] # 0
                   /\ conns[connectionInfo[s]].sessionId = id}

\* C4: at most one OPEN socket has a successful init for a given session id.
C4_OneOpenSocketPerSession ==
    \A id \in SessionIds : Cardinality(OpenFor(id)) <= 1

(***************************************************************************)
(* services/tts: WebSocketTtsService.registerClient (the Connection        *)
(* Registry of the transcoding mode)                                       *)
(***************************************************************************)
VARIABLES
    clientState,     \* client socket -> "OPEN" | "CLOSING" | "CLOSED"  (readyState)
    closeCode,       \* client socket -> code given to the close() that closed it, 0 = none
    sessionSockets,  \* sessionId -> registered client socket, 0 = no entry
    closeListeners,  \* {<<ws, sessionId>>}: the close listeners registerClient attached
    lastOp,          \* history: the operation that led to this state
    latestReg        \* history: sessionId -> socket of the latest registerClient call

regVars == <<clientState, closeCode, sessionSockets, closeListeners, lastOp, latestReg>>

\* number of client sockets handed to registerClient
NClient == 3
Clients == 1..NClient
RegIds == {"s1", "s2"}
SupersedeCode == 4000
NoOp == [op |-> "none", ws |-> 0, id |-> "", prev |-> 0, prevOpen |-> FALSE]

RegInit ==
    /\ clientState = [c \in Clients |-> "OPEN"]
    /\ closeCode = [c \in Clients |-> 0]
    /\ sessionSockets = [id \in RegIds |-> 0]
    /\ closeListeners = {}
    /\ lastOp = NoOp
    /\ latestReg = [id \in RegIds |-> 0]

\* a registerClient that leaves the previous socket open
NoSupersede(existingWs, ws) == FALSE

\* existingWs && existingWs !== ws && existingWs.readyState === ws.OPEN
MustSupersede(existingWs, ws) ==
    /\ existingWs # 0
    /\ existingWs # ws
    /\ clientState[existingWs] = "OPEN"

\* a close listener that deletes on key presence alone
AnyRegistered(ws, id) == sessionSockets[id] # 0

\* the listener's guard: this.sessionSockets.get(sessionId) === ws
StillRegistered(ws, id) == sessionSockets[id] = ws

\* registerClient(ws, sessionId)
RegisterClient(ws, id) ==
    LET existingWs == sessionSockets[id]
    IN  /\ IF MustSupersede(existingWs, ws)
           THEN /\ clientState' = [clientState EXCEPT ![existingWs] = CloseSocket(@)]
                /\ closeCode' = [closeCode EXCEPT ![existingWs] = SupersedeCode]
           ELSE UNCHANGED <<clientState, closeCode>>
        /\ sessionSockets' = [sessionSockets EXCEPT ![id] = ws]
        /\ closeListeners' = closeListeners \cup {<<ws, id>>}
        /\ lastOp' = [op |-> "register", ws |-> ws, id |-> id, prev |-> existingWs,
                      prevOpen |-> IF existingWs = 0 THEN FALSE
                                   ELSE clientState[existingWs] = "OPEN"]
        /\ latestReg' = [latestReg EXCEPT ![id] = ws]

\* the 'close' event of a client socket: every listener registerClient attached runs
ClientCloseEvent(ws) ==
    /\ clientState[ws] \in {"OPEN", "CLOSING"}
    /\ clientState' = [clientState EXCEPT ![ws] = "CLOSED"]
    /\ sessionSockets' = [id \in RegIds |->
           IF <<ws, id>> \in closeListeners /\ StillRegistered(ws, id)
           THEN 0 ELSE sessionSockets[id]]
    /\ lastOp' = [NoOp EXCEPT !.op = "close", !.ws = ws]
    /\ UNCHANGED <<closeCode, closeListeners, latestReg>>

\* C5: after registerClient(s2, id) found s1 # s2 registered for id and OPEN,
\* the registry maps id to s2 and s1 has been closed with the supersede code 4000.
C5_RegisterSupersedes ==
    (/\ lastOp.op = "register"
     /\ lastOp.prev # 0
     /\ lastOp.prev # lastOp.ws
     /\ lastOp.prevOpen)
    => /\ sessionSockets[lastOp.id] = lastOp.ws
       /\ clientState[lastOp.prev] # "OPEN"
       /\ closeCode[lastOp.prev] = SupersedeCode

C5_Witness ==
    /\ lastOp.op = "register"
    /\ lastOp.prev # 0
    /\ lastOp.prev # lastOp.ws
    /\ lastOp.prevOpen
    /\ clientState[lastOp.prev] = "CLOSING"

\* C6: the socket of the latest registerClient call for an id stays registered
\* under that id until its own close event: close events of older sockets
\* leave the newer registration in place.
C6_CloseKeepsNewerRegistration ==
    \A id \in RegIds :
        (latestReg[id] # 0 /\ clientState[latestReg[id]] # "CLOSED")
        => sessionSockets[id] = latestReg[id]

\* an older socket's close event has fired while a newer socket is registered
C6_Witness ==
    /\ lastOp.op = "close"
    /\ \E id \in RegIds :
          /\ <<lastOp.ws, id>> \in closeListeners
          /\ latestReg[id] # 0
          /\ latestReg[id] # lastOp.ws
          /\ clientState[latestReg[id]] = "OPEN"
          /\ sessionSockets[id] = latestReg[id]

(***************************************************************************)
(* Byte buffers.  The audio bytes are opaque to the program, so a byte is  *)
(* identified by its offset in the stream the provider sends, and a Buffer *)
(* is the sequence of the offset runs <<first offset, length>> it holds,   *)
(* adjacent runs merged.                                                   *)
(***************************************************************************)
RECURSIVE BufLen(_), BufTake(_, _), BufDrop(_, _)

\* buffer.length
BufLen(b) == IF b = <<>> THEN 0 ELSE Head(b)[2] + BufLen(Tail(b))

\* Buffer.concat([a, b])
BufConcat(a, b) ==
    IF a = <<>> THEN b
    ELSE IF b = <<>> THEN a
    ELSE LET la == a[Len(a)]
             hb == Head(b)
         IN  IF la[1] + la[2] = hb[1]
             THEN SubSeq(a, 1, Len(a) - 1) \o <<<<la[1], la[2] + hb[2]>>>> \o Tail(b)
             ELSE a \o b

\* buffer.slice(0, n)
BufTake(b, n) ==
    IF n <= 0 \/ b = <<>> THEN <<>>
    ELSE IF Head(b)[2] <= n
         THEN BufConcat(<<Head(b)>>, BufTake(Tail(b), n - Head(b)[2]))
         ELSE <<<<Head(b)[1], n>>>>

\* buffer.slice(n)
BufDrop(b, n) ==
    IF n <= 0 \/ b = <<>> THEN b
    ELSE IF Head(b)[2] <= n
         THEN BufDrop(Tail(b), n - Head(b)[2])
         ELSE <<<<Head(b)[1] + n, Head(b)[2] - n>>>> \o Tail(b)

\* Buffer.from(hex, 'hex') of a string of hexLen hex digits that starts at
\* stream offset `at`: two digits make a byte, an odd last digit is dropped
HexDecode(hexLen, at) ==
    IF hexLen \div 2 = 0 THEN <<>> ELSE <<<<at, hexLen \div 2>>>>

(***************************************************************************)
(* services/tts/SimpleTtsService.ts: one synthesize call                   *)
(***************************************************************************)
VARIABLES
    sPhase,        \* "idle" before the call, "called" after
    sCompleted,    \* isCompleted
    sSettled,      \* the resolve / reject calls made on the promise, in order
    frameBuffer,   \* frameBuffer
    minimaxState,  \* provider socket: "NONE" | "CONNECTING" | "OPEN" | "CLOSING" |
                   \*   "ABORTING" | "ERRORED" | "CLOSED"
    sTimer,        \* the 30 s timer: "none" | "pending" | "fired"
    sClient,       \* clientWs.readyState: "OPEN" | "CLOSED"
    clientOut,     \* frames sent to the client, in order
    providerOut,   \* messages sent to the provider, in order
    sMsgs,         \* provider messages handled so far
    sReceived,     \* history: the decoded audio received so far
    sFinals,       \* history: number of is_final messages handled
    sLateAudio,    \* history: audio arrived after an is_final or with the client closed
    sFailed,       \* history: a task_failed message (base_resp.status_code # 0) was handled
    sCreds,        \* history: MINIMAX_API_KEY was set when synthesize was called
    sHeard         \* history: the connected_success / task_started messages handled,
                   \*   each with whether the provider socket was OPEN

simpleVars == <<sPhase, sCompleted, sSettled, frameBuffer, minimaxState, sTimer,
                sClient, clientOut, providerOut, sMsgs, sReceived, sFinals, sLateAudio,
                sFailed, sCreds, sHeard>>

FRAME_CHUNK_SIZE == 6144
\* number of provider messages handled in one synthesize call
MaxProviderMsgs == 4
\* lengths (in hex digits) of data.audio: absent or empty, 1 byte, one byte
\* short of a chunk, two chunks
FragHexLens == {0, 2, 2 * FRAME_CHUNK_SIZE - 2, 4 * FRAME_CHUNK_SIZE}

ProviderMsgs ==
    [event : {"connected_success", "task_started"}, hexLen : {0}, isFinal : {FALSE}]
    \cup [event : {"task_continued"}, hexLen : FragHexLens, isFinal : BOOLEAN]
    \cup [event : {"task_failed"}, hexLen : {0}, isFinal : {FALSE}]

SimpleInit ==
    /\ sPhase = "idle"
    /\ sCompleted = FALSE
    /\ sSettled = <<>>
    /\ frameBuffer = <<>>
    /\ minimaxState = "NONE"
    /\ sTimer = "none"
    /\ sClient = "OPEN"
    /\ clientOut = <<>>
    /\ providerOut = <<>>
    /\ sMsgs = 0
    /\ sReceived = <<>>
    /\ sFinals = 0
    /\ sLateAudio = FALSE
    /\ sFailed = FALSE
    /\ sCreds = TRUE
    /\ sHeard = <<>>

\* synthesize(clientWs, ...): the promise executor opens the provider socket,
\* with whatever process.env.MINIMAX_API_KEY holds in its header, and arms the
\* timer
Synthesize(creds) ==
    /\ sPhase = "idle"
    /\ sCreds' = creds
    /\ sPhase' = "called"
    /\ minimaxState' = "CONNECTING"
    /\ sTimer' = "pending"
    /\ UNCHANGED <<sCompleted, sSettled, frameBuffer, sClient, clientOut, providerOut,
                   sMsgs, sReceived, sFinals, sLateAudio, sFailed, sHeard>>

\* minimaxWs.on('open')
ProviderOpen ==
    /\ minimaxState = "CONNECTING"
    /\ minimaxState' = "OPEN"
    /\ UNCHANGED <<sPhase, sCompleted, sSettled, frameBuffer, sTimer, sClient, clientOut,
                   providerOut, sMsgs, sReceived, sFinals, sLateAudio, sFailed, sCreds, sHeard>>

\* minimaxWs.close(): an OPEN socket starts the closing handshake and still
\* delivers the messages that arrive before the peer's close frame; closing a
\* CONNECTING socket aborts the handshake (an 'error' event follows)
CloseProvider(st) ==
    CASE st = "OPEN" -> "CLOSING"
      [] st = "CONNECTING" -> "ABORTING"
      [] OTHER -> st

\* a send that puts the message on the wire twice
SendProviderTwice(po, st, m) == IF st = "OPEN" THEN po \o <<m, m>> ELSE po

\* minimaxWs.send(...): dropped unless the provider socket is OPEN
SendProvider(po, st, m) == IF st = "OPEN" THEN Append(po, m) ELSE po

RECURSIVE RechunkOffByOne(_, _)
\* a re-chunking whose chunk is one byte shorter than the bytes it consumes
RechunkOffByOne(buf, open) ==
    IF BufLen(buf) >= FRAME_CHUNK_SIZE /\ open
    THEN LET r == RechunkOffByOne(BufDrop(buf, FRAME_CHUNK_SIZE), open)
         IN  [frames |-> <<[type |-> "binary", data |-> BufTake(buf, FRAME_CHUNK_SIZE - 1)]>> \o r.frames,
              rest |-> r.rest]
    ELSE [frames |-> <<>>, rest |-> buf]

RECURSIVE Rechunk(_, _)
\* the while loop of the task_continued branch: [frames |-> chunks sent, rest |-> frameBuffer]
Rechunk(buf, open) ==
    IF BufLen(buf) >= FRAME_CHUNK_SIZE /\ open
    THEN LET r == Rechunk(BufDrop(buf, FRAME_CHUNK_SIZE), open)
         IN  [frames |-> <<[type |-> "binary", data |-> BufTake(buf, FRAME_CHUNK_SIZE)]>> \o r.frames,
              rest |-> r.rest]
    ELSE [frames |-> <<>>, rest |-> buf]

\* the is_final branch sends task_complete whenever the client socket is OPEN
SendsTaskComplete(open) == open

\* minimaxWs.on('message')
ProviderMessage(m) ==
    LET open == sClient = "OPEN"
        hasAudio == m.event = "task_continued" /\ m.hexLen > 0
        mp3Buffer == HexDecode(m.hexLen, BufLen(sReceived))
        chunked == IF hasAudio THEN Rechunk(BufConcat(frameBuffer, mp3Buffer), open)
                   ELSE [frames |-> <<>>, rest |-> frameBuffer]
        lastChunk == IF m.isFinal /\ BufLen(chunked.rest) > 0 /\ open
                     THEN <<[type |-> "binary", data |-> chunked.rest]>> ELSE <<>>
        complete == IF m.isFinal /\ SendsTaskComplete(open)
                    THEN <<[type |-> "task_complete", data |-> <<>>]>> ELSE <<>>
    IN  /\ minimaxState \in {"OPEN", "CLOSING"}
        /\ sMsgs < MaxProviderMsgs
        /\ sMsgs' = sMsgs + 1
        /\ IF m.event = "connected_success"
           THEN /\ providerOut' = SendProvider(providerOut, minimaxState, "task_start")
                /\ UNCHANGED <<sCompleted, sSettled, frameBuffer, minimaxState, clientOut,
                               sReceived, sFinals, sLateAudio>>
           ELSE IF m.event = "task_started"
           THEN /\ providerOut' = SendProvider(providerOut, minimaxState, "task_continue")
                /\ UNCHANGED <<sCompleted, sSettled, frameBuffer, minimaxState, clientOut,
                               sReceived, sFinals, sLateAudio>>
           ELSE /\ clientOut' = clientOut \o chunked.frames \o lastChunk \o complete
                /\ frameBuffer' = IF lastChunk # <<>> THEN <<>> ELSE chunked.rest
                /\ sReceived' = IF hasAudio THEN BufConcat(sReceived, mp3Buffer) ELSE sReceived
                /\ sLateAudio' = (sLateAudio \/ (hasAudio /\ (sFinals > 0 \/ ~open)))
                /\ IF m.isFinal
                   THEN /\ minimaxState' = CloseProvider(minimaxState)
                        /\ sFinals' = sFinals + 1
                        /\ IF ~sCompleted
                           THEN /\ sCompleted' = TRUE
                                /\ sSettled' = Append(sSettled, "resolve")
                           ELSE UNCHANGED <<sCompleted, sSettled>>
                   ELSE UNCHANGED <<minimaxState, sFinals, sCompleted, sSettled>>
                /\ UNCHANGED providerOut
        /\ sFailed' = (sFailed \/ m.event = "task_failed")
        /\ sHeard' = IF m.event \in {"connected_success", "task_started"}
                     THEN Append(sHeard, [event |-> m.event, open |-> minimaxState = "OPEN"])
                     ELSE sHeard
        /\ UNCHANGED <<sPhase, sTimer, sClient, sCreds>>

\* minimaxWs.on('error'): the library stops reading and closes the socket
ProviderError ==
    /\ minimaxState \in {"CONNECTING", "OPEN", "ABORTING"}
    /\ minimaxState' = "ERRORED"
    /\ IF ~sCompleted
       THEN /\ sCompleted' = TRUE
            /\ sSettled' = Append(sSettled, "reject")
       ELSE UNCHANGED <<sCompleted, sSettled>>
    /\ UNCHANGED <<sPhase, frameBuffer, sTimer, sClient, clientOut, providerOut, sMsgs,
                   sReceived, sFinals, sLateAudio, sFailed, sCreds, sHeard>>

\* minimaxWs.on('close')
ProviderClose ==
    /\ minimaxState \in {"OPEN", "CLOSING", "ERRORED"}
    /\ minimaxState' = "CLOSED"
    /\ UNCHANGED <<sPhase, sCompleted, sSettled, frameBuffer, sTimer, sClient, clientOut,
                   providerOut, sMsgs, sReceived, sFinals, sLateAudio, sFailed, sCreds, sHeard>>

\* a timer callback that settles nothing
SimpleTimeoutNoReject ==
    /\ sTimer = "pending"
    /\ sTimer' = "fired"
    /\ UNCHANGED <<sPhase, sCompleted, sSettled, frameBuffer, minimaxState, sClient,
                   clientOut, providerOut, sMsgs, sReceived, sFinals, sLateAudio, sFailed, sCreds, sHeard>>

\* the setTimeout(..., 30000) callback
SimpleTimeout ==
    /\ sTimer = "pending"
    /\ sTimer' = "fired"
    /\ IF ~sCompleted
       THEN /\ sCompleted' = TRUE
            /\ minimaxState' = CloseProvider(minimaxState)
            /\ sSettled' = Append(sSettled, "reject")
       ELSE UNCHANGED <<sCompleted, minimaxState, sSettled>>
    /\ UNCHANGED <<sPhase, frameBuffer, sClient, clientOut, providerOut, sMsgs,
                   sReceived, sFinals, sLateAudio, sFailed, sCreds, sHeard>>

\* the client socket closes
SimpleClientClosed ==
    /\ sPhase = "called"
    /\ sClient = "OPEN"
    /\ sClient' = "CLOSED"
    /\ UNCHANGED <<sPhase, sCompleted, sSettled, frameBuffer, minimaxState, sTimer,
                   clientOut, providerOut, sMsgs, sReceived, sFinals, sLateAudio, sFailed, sCreds, sHeard>>

RECURSIVE BinaryBytes(_)
\* the concatenation of the binary frames of a frame sequence
BinaryBytes(fs) ==
    IF fs = <<>> THEN <<>>
    ELSE IF Head(fs).type = "binary"
         THEN BufConcat(Head(fs).data, BinaryBytes(Tail(fs)))
         ELSE BinaryBytes(Tail(fs))

\* positions of the task_complete messages in a frame sequence
TaskCompletesOf(fs) == {i \in 1..Len(fs) : fs[i].type = "task_complete"}
TaskCompletes == TaskCompletesOf(clientOut)

(***************************************************************************)
(* services/tts: WebSocketTtsService.streamSynthesize (transcoding mode),  *)
(* one call for the client socket BridgeClient.  The closure variables of  *)
(* the promise executor are the fields of br; the handlers are functions   *)
(* from one value of br to the next.                                       *)
(***************************************************************************)
VARIABLES
    br   \* phase             "idle" before the call, "called" after
         \* creds             history: the credentials were set when the call was made
         \* isCompleted       isCompleted
         \* settled           the resolve / reject calls made on the promise, in order
         \* attempts          history: handleError / handleComplete calls, counted to 2
         \* minimax           provider socket state, as minimaxState
         \* listening         the event handlers and the timer were installed
         \* sessionId         the local sessionId: "" = null, else the provider's session_id
         \* taskStarted       taskStarted
         \* timer             "none" | "pending" | "fired" | "cleared"
         \* pendingFinalFlush pendingFinalFlush
         \* lastAudioCallback lastAudioCallback !== null
         \* finalListeners    ffmpeg.on('close') listeners added by is_final messages
         \* ff                subprocess: "none" | "running" | "closed"
         \* stdin             ffmpeg.stdin: "open" | "ended" | "destroyed"
         \* stdout            ffmpeg.stdout: "open" | "ended"
         \* killed            ffmpeg.kill('SIGTERM') was called
         \* ffErrored         the subprocess 'error' event was emitted
         \* fed               bytes were written to ffmpeg.stdin
         \* needDrain         the last ffmpeg.stdin.write returned false, no 'drain' yet
         \* mmHexIn           2 * mmBytesIn: hex digits counted by writeMp3Hex
         \* ffInBytes         ffInBytes
         \* ffOutBytes        ffOutBytes
         \* wsSentBytes       wsSentBytes
         \* chunks            stdout 'data' events handled so far
         \* pendingSends      ws.send callbacks not yet run
         \* out               frames sent to client sockets: [ws, type], in order
         \* providerOut       messages sent to the provider, in order
         \* msgs              provider messages handled so far
         \* heard             history: the connected_success / task_started messages
         \*                   handled, each with whether the provider socket was OPEN

bridgeVars == <<br>>

\* the clientWs argument
BridgeClient == 1
\* number of provider messages handled in one streamSynthesize call
MaxBridgeMsgs == 3
\* number of stdout chunks of the subprocess in one call
MaxChunks == 1
ProviderSessionIds == {"p1"}
\* lengths (in hex digits) of data.audio: absent or empty, one digit (decodes to
\* no byte), one byte
BridgeHexLens == {0, 1, 2}
\* length of a stdout chunk of the subprocess; the stream emits no empty chunk
ChunkLen == 1

BridgeMsgs ==
    [event : {"connected_success"}, sid : ProviderSessionIds, data : {FALSE},
     hexLen : {0}, isFinal : {FALSE}, statusOk : {TRUE}]
    \cup [event : {"task_started", "task_finished", "task_failed", "garbage"}, sid : {""},
          data : {FALSE}, hexLen : {0}, isFinal : {FALSE}, statusOk : {TRUE}]
    \cup [event : {"task_continued"}, sid : {""}, data : {TRUE},
          hexLen : BridgeHexLens, isFinal : BOOLEAN, statusOk : {TRUE}]
    \cup [event : {"task_continued"}, sid : {""}, data : {FALSE},
          hexLen : {0}, isFinal : {FALSE}, statusOk : BOOLEAN]

BridgeInit ==
    br = [phase |-> "idle", creds |-> TRUE, isCompleted |-> FALSE, settled |-> <<>>, attempts |-> 0,
          minimax |-> "NONE", listening |-> FALSE, sessionId |-> "",
          taskStarted |-> FALSE, timer |-> "none", pendingFinalFlush |-> FALSE,
          lastAudioCallback |-> FALSE, finalListeners |-> 0, ff |-> "none",
          stdin |-> "open", stdout |-> "open", killed |-> FALSE, ffErrored |-> FALSE,
          fed |-> FALSE, needDrain |-> FALSE, mmHexIn |-> 0, ffInBytes |-> 0,
          ffOutBytes |-> 0, wsSentBytes |-> 0, chunks |-> 0, pendingSends |-> 0, out |-> <<>>,
          providerOut |-> <<>>, msgs |-> 0, heard |-> <<>>]

\* this.sessionSockets.get(key)
Lookup(key) == IF key \in DOMAIN sessionSockets THEN sessionSockets[key] ELSE 0

\* sessionId ? self.sessionSockets.get(sessionId) : clientWs
ActiveWs(b) == IF b.sessionId # "" THEN Lookup(b.sessionId) ELSE BridgeClient

\* activeWs && activeWs.readyState === WebSocket.OPEN
ActiveOpen(b) == ActiveWs(b) # 0 /\ clientState[ActiveWs(b)] = "OPEN"

\* activeWs.send(...) of a frame of the given type, when the active socket is OPEN
SendActive(b, type) ==
    IF ActiveOpen(b)
    THEN [b EXCEPT !.out = Append(@, [ws |-> ActiveWs(b), type |-> type])]
    ELSE b

\* sendStats()
SendStats(b) == SendActive(b, "stats")

\* the original cleanup: end stdin, kill the subprocess, close an OPEN provider socket
Cleanup(b) ==
    [b EXCEPT !.stdin = IF @ = "open" THEN "ended" ELSE @,
              !.killed = TRUE,
              !.minimax = IF @ = "OPEN" THEN "CLOSING" ELSE @]

\* enhancedCleanup, which replaces cleanup once the handlers are installed
EnhancedCleanup(b) ==
    Cleanup([b EXCEPT !.timer = IF @ = "pending" THEN "cleared" ELSE @])

\* cleanup(), through the variable the closures read
CurrentCleanup(b) == IF b.listening THEN EnhancedCleanup(b) ELSE Cleanup(b)

\* a completion path that settles the promise on every call
SettleUnguarded(b, how) ==
    [b EXCEPT !.isCompleted = TRUE, !.settled = Append(@, how)]

\* if (!isCompleted) { isCompleted = true; resolve() / reject(error) }
SettleOnce(b, how) ==
    IF ~b.isCompleted
    THEN [b EXCEPT !.isCompleted = TRUE, !.settled = Append(@, how)]
    ELSE b

CountAttempt(b) == [b EXCEPT !.attempts = IF @ < 2 THEN @ + 1 ELSE @]

\* handleError(error)
HandleError(b) == SettleOnce(CurrentCleanup(CountAttempt(b)), "reject")

\* handleComplete()
HandleComplete(b) == SettleOnce(CurrentCleanup(CountAttempt(b)), "resolve")

\* streamSynthesize(clientWs, text, voiceId, sessionId): the credential check
\* and the promise executor
StreamSynthesize(creds) ==
    LET spawned == [br EXCEPT !.phase = "called", !.creds = TRUE,
                              !.minimax = "CONNECTING", !.ff = "running"]
    IN  /\ br.phase = "idle"
        /\ br' = IF ~creds
                 THEN [br EXCEPT !.phase = "called", !.creds = FALSE,
                                 !.settled = <<"reject">>,
                                 !.isCompleted = TRUE]
                 ELSE IF clientState[BridgeClient] # "OPEN"
                 THEN HandleError(spawned)
                 ELSE [spawned EXCEPT !.listening = TRUE, !.timer = "pending"]
        /\ UNCHANGED regVars

\* minimaxWs.on('open')
BridgeProviderOpen ==
    /\ br.listening
    /\ br.minimax = "CONNECTING"
    /\ br' = [br EXCEPT !.minimax = "OPEN"]
    /\ UNCHANGED regVars

\* minimaxWs.send(...): dropped unless the provider socket is OPEN
BridgeSendProvider(b, m) ==
    IF b.minimax = "OPEN" THEN [b EXCEPT !.providerOut = Append(@, m)] ELSE b

\* writeMp3Hex(hex) of a fragment of hexLen hex digits; ok is what
\* ffmpeg.stdin.write returns when the pipe was not already waiting for 'drain'
WriteMp3Hex(b, hexLen, ok) ==
    LET c == [b EXCEPT !.mmHexIn = @ + hexLen]
        buf == HexDecode(hexLen, 0)
    IN  IF c.stdin = "destroyed" \/ BufLen(buf) = 0 THEN c
        ELSE IF c.stdin = "open"
        THEN [c EXCEPT !.ffInBytes = @ + BufLen(buf), !.fed = TRUE,
                       !.needDrain = @ \/ ~ok]
        ELSE [c EXCEPT !.ffInBytes = @ + BufLen(buf)]

\* the is_final branch: finalizeTranscode(), sendStats(), ffmpeg.on('close', ...)
OnFinal(b) ==
    [SendStats([b EXCEPT !.stdin = IF @ = "open" THEN "ended" ELSE @])
        EXCEPT !.finalListeners = @ + 1]

\* history: a connected_success / task_started message is being handled
Hear(b, m) ==
    [b EXCEPT !.heard = Append(@, [event |-> m.event, open |-> b.minimax = "OPEN"])]

\* minimaxWs.on('message')
BridgeOnMessage(b, m, ok) ==
    CASE m.event = "garbage" -> HandleError(b)
      [] m.event = "connected_success" ->
            BridgeSendProvider([Hear(b, m) EXCEPT !.sessionId = m.sid], "task_start")
      [] m.event = "task_started" ->
            BridgeSendProvider([Hear(b, m) EXCEPT !.taskStarted = TRUE], "task_continue")
      [] m.event = "task_continued" /\ m.data ->
            LET w == IF m.hexLen > 0 THEN WriteMp3Hex(b, m.hexLen, ok) ELSE b
            IN  IF m.isFinal THEN OnFinal(w) ELSE w
      [] m.event = "task_finished" -> b
      [] OTHER ->
            IF m.event = "task_failed" \/ ~m.statusOk THEN HandleError(b) ELSE b

BridgeProviderMessage(m, ok) ==
    /\ br.listening
    /\ br.minimax \in {"OPEN", "CLOSING"}
    /\ br.msgs < MaxBridgeMsgs
    /\ br' = BridgeOnMessage([br EXCEPT !.msgs = @ + 1], m, ok)
    /\ UNCHANGED regVars

\* minimaxWs.on('error'): the library stops reading and closes the socket
BridgeProviderError ==
    /\ br.listening
    /\ br.minimax \in {"CONNECTING", "OPEN", "ABORTING"}
    /\ br' = HandleError([br EXCEPT !.minimax = "ERRORED"])
    /\ UNCHANGED regVars

\* minimaxWs.on('close')
BridgeProviderClose ==
    LET b == [br EXCEPT !.minimax = "CLOSED"]
    IN  /\ br.listening
        /\ br.minimax \in {"OPEN", "CLOSING", "ERRORED"}
        /\ br' = IF b.sessionId # "" /\ ~b.isCompleted THEN HandleComplete(b) ELSE b
        /\ UNCHANGED regVars

\* the setTimeout(..., 30000) callback
BridgeTimeout ==
    LET b == [br EXCEPT !.timer = "fired"]
    IN  /\ br.timer = "pending"
        /\ br' = IF ~b.isCompleted THEN HandleError(b) ELSE b
        /\ UNCHANGED regVars

\* ffmpeg.stdout.on('data') of a non-empty chunk: sendChunk(webmChunk, callback)
FfmpegData ==
    /\ br.ff = "running" /\ br.stdout = "open" /\ br.fed
    /\ br.chunks < MaxChunks
    /\ br' = LET b == [br EXCEPT !.chunks = @ + 1, !.ffOutBytes = @ + ChunkLen]
             IN  IF ActiveOpen(b)
                 THEN [SendActive(b, "binary") EXCEPT !.pendingSends = @ + 1]
                 ELSE [b EXCEPT !.lastAudioCallback = TRUE]
    /\ UNCHANGED regVars

\* the callback of a completed activeWs.send(buf, ...): counts the bytes and
\* stores lastAudioCallback
SendCallback ==
    /\ br.pendingSends > 0
    /\ br' = [br EXCEPT !.pendingSends = @ - 1, !.lastAudioCallback = TRUE,
                        !.wsSentBytes = @ + ChunkLen]
    /\ UNCHANGED regVars

\* the 'drain' event of ffmpeg.stdin: the once('drain') listener only logs
StdinDrain ==
    /\ br.needDrain
    /\ br.stdin # "destroyed"
    /\ br' = [br EXCEPT !.needDrain = FALSE]
    /\ UNCHANGED regVars

\* ffmpeg.stdout.on('end')
FfmpegStdoutEnd ==
    /\ br.ff = "running" /\ br.stdout = "open"
    /\ br' = SendStats([br EXCEPT !.stdout = "ended"])
    /\ UNCHANGED regVars

\* ffmpeg.on('error')
FfmpegError ==
    /\ br.ff = "running" /\ ~br.ffErrored
    /\ br' = HandleError([br EXCEPT !.ffErrored = TRUE])
    /\ UNCHANGED regVars

\* the ffmpeg.on('close') listener an is_final message added; lastAudioCallback,
\* when set, does the same as the else branch
FinalCloseListener(b) ==
    IF b.pendingFinalFlush THEN b
    ELSE HandleComplete(SendActive([b EXCEPT !.pendingFinalFlush = TRUE], "task_complete"))

\* ffmpeg 'close': the listener of line 110, then the listeners added by is_final
FfmpegClose ==
    LET b == SendStats([br EXCEPT !.ff = "closed", !.stdin = "destroyed"])
    IN  /\ br.ff = "running" /\ br.stdout = "ended"
        /\ br' = IF b.finalListeners > 0 THEN FinalCloseListener(b) ELSE b
        /\ UNCHANGED regVars

\* clientWs 'close': the registry's listener, and cleanup() once streamSynthesize
\* has installed its listener
BridgeClientClose ==
    /\ ClientCloseEvent(BridgeClient)
    /\ br' = IF br.listening THEN CurrentCleanup(br) ELSE br

\* clientWs 'error': cleanup(); the library then closes the socket
BridgeClientError ==
    /\ br.listening
    /\ clientState[BridgeClient] = "OPEN"
    /\ clientState' = [clientState EXCEPT ![BridgeClient] = "CLOSING"]
    /\ br' = CurrentCleanup(br)
    /\ UNCHANGED <<closeCode, sessionSockets, closeListeners, lastOp, latestReg>>

(***************************************************************************)
(* services/minimax.ts: simpleRetry, as called by generateSpeech and        *)
(* cloneVoice with the default maxRetries                                  *)
(***************************************************************************)
VARIABLES
    rPc,       \* "idle" | "attempt" (operation about to run) | "delay" (waiting
               \*   for the 1 s timer) | "returned" | "thrown"
    rOp,       \* the caller: "generateSpeech" | "cloneVoice"
    rCreds,    \* MINIMAX_API_KEY and MINIMAX_GROUP_ID are set
    attempt,   \* the loop variable attempt
    rLog,      \* history: the outcome of every run of the operation, in order
    rWaited,   \* history: milliseconds spent in retry delays
    rResult,   \* 0, or the run of the operation whose value simpleRetry returned
    rThrown    \* "", or the error simpleRetry threw

retryVars == <<rPc, rOp, rCreds, attempt, rLog, rWaited, rResult, rThrown>>

\* the default of the maxRetries parameter
MaxRetriesDefault == 2
\* the delay between a failed attempt and the next one, in milliseconds
RetryDelayMs == 1000
RetryOps == {"generateSpeech", "cloneVoice"}
\* what a run of the operation ends with when the credentials are set: a value,
\* a rejected fetch, a response that is not ok, a non-zero base_resp.status_code
OperationOutcomes == {"ok", "network", "http", "api"}

RetryInit ==
    /\ rPc = "idle"
    /\ rOp = ""
    /\ rCreds = TRUE
    /\ attempt = 0
    /\ rLog = <<>>
    /\ rWaited = 0
    /\ rResult = 0
    /\ rThrown = ""

\* the operation body: the credential check comes first and throws
Operation(creds, outcome) == IF ~creds THEN "config" ELSE outcome

\* generateSpeech(...) / cloneVoice(...) enters simpleRetry(operation)
SimpleRetryCall(op, creds) ==
    /\ rPc = "idle"
    /\ rPc' = "attempt"
    /\ rOp' = op
    /\ rCreds' = creds
    /\ attempt' = 0
    /\ UNCHANGED <<rLog, rWaited, rResult, rThrown>>

\* a loop that allows one attempt more
NextAfterFailureOneMore(a) == IF a = MaxRetriesDefault + 1 THEN "thrown" ELSE "delay"

\* catch (error): rethrow on the last attempt, else wait and go round again
NextAfterFailure(a) == IF a = MaxRetriesDefault THEN "thrown" ELSE "delay"

\* one pass of the loop body: return await operation(), or the catch block
RunOperation(outcome) ==
    LET r == Operation(rCreds, outcome)
    IN  /\ rPc = "attempt"
        /\ rLog' = Append(rLog, r)
        /\ IF r = "ok"
           THEN /\ rPc' = "returned"
                /\ rResult' = Len(rLog) + 1
                /\ UNCHANGED rThrown
           ELSE /\ rPc' = NextAfterFailure(attempt)
                /\ rThrown' = IF rPc' = "thrown" THEN r ELSE rThrown
                /\ UNCHANGED rResult
        /\ UNCHANGED <<rOp, rCreds, attempt, rWaited>>

\* the setTimeout(resolve, 1000) of the catch block fires; attempt++
DelayElapsed ==
    /\ rPc = "delay"
    /\ rPc' = "attempt"
    /\ attempt' = attempt + 1
    /\ rWaited' = rWaited + RetryDelayMs
    /\ UNCHANGED <<rOp, rCreds, rLog, rResult, rThrown>>

(***************************************************************************)
(* client/src/workers/mp3-worker.ts: the batching worker.  A chunk of the  *)
(* input is the run of stream offsets it carries; the timer variable holds *)
(* the delay it was armed with, 0 for null.                                *)
(***************************************************************************)
VARIABLES
    APPEND_TARGET_MS,  \* let APPEND_TARGET_MS
    APPEND_MAX_BYTES,  \* let APPEND_MAX_BYTES
    urgentMode,        \* let urgentMode
    batchChunks,       \* let batchChunks: sequence of buffers
    batchBytes,        \* let batchBytes
    flushTimer,        \* let flushTimer: 0 for null, else the armed delay
    posted,            \* the batch messages posted to the main thread, in order
    wIn,               \* history: number of chunk bytes received so far
    wInput,            \* history: the chunks received since the last reset, concatenated
    wResetAt,          \* history: wIn at the last reset
    wPostedAtReset,    \* history: Len(posted) when the last reset arrived
    wUrgentArgs,       \* history: <<targetMs, maxBytes>> of the last urgent_mode message
    wLast,             \* history: type of the last message handled
    wMsgs              \* number of messages handled

workerVars == <<APPEND_TARGET_MS, APPEND_MAX_BYTES, urgentMode, batchChunks, batchBytes,
                flushTimer, posted, wIn, wInput, wResetAt, wPostedAtReset, wUrgentArgs,
                wLast, wMsgs>>

NORMAL_TARGET_MS == 280
\* 80 * 1024
NORMAL_MAX_BYTES == 81920
URGENT_TARGET_MS == 100
\* 32 * 1024
URGENT_MAX_BYTES == 32768

MaxWorkerMsgs == 5
\* chunk.byteLength of the chunks delivered
ChunkSizes == {1, 32 * 1024, 80 * 1024}
\* targetMs and maxBytes of an urgent_mode message; 0 stands for an absent
\* (or zero) field, which `||` replaces by the default
UrgentTargets == {0, 50}
UrgentMaxBytes == {0, 1024}

WorkerInit ==
    /\ APPEND_TARGET_MS = NORMAL_TARGET_MS
    /\ APPEND_MAX_BYTES = NORMAL_MAX_BYTES
    /\ urgentMode = FALSE
    /\ batchChunks = <<>>
    /\ batchBytes = 0
    /\ flushTimer = 0
    /\ posted = <<>>
    /\ wIn = 0
    /\ wInput = <<>>
    /\ wResetAt = 0
    /\ wPostedAtReset = 0
    /\ wUrgentArgs = <<0, 0>>
    /\ wLast = "none"
    /\ wMsgs = 0

RECURSIVE Merge(_)
\* the loop of flushBatch: merged.set(chunk, offset) for each chunk in order
Merge(chunks) ==
    IF chunks = <<>> THEN <<>> ELSE BufConcat(Head(chunks), Merge(Tail(chunks)))

\* flushBatch that posts the batch and keeps the accumulator
FlushBatchKeep(w) ==
    IF w.batchChunks = <<>> THEN w
    ELSE [w EXCEPT !.flushTimer = 0,
                   !.posted = Append(@, [data |-> Merge(w.batchChunks),
                                         batchBytes |-> w.batchBytes])]

\* flushBatch(), on the record w of the fields it reads and writes
FlushBatch(w) ==
    IF w.batchChunks = <<>> THEN w
    ELSE [w EXCEPT !.flushTimer = 0,
                   !.posted = Append(@, [data |-> Merge(w.batchChunks),
                                         batchBytes |-> w.batchBytes]),
                   !.batchChunks = <<>>,
                   !.batchBytes = 0]

\* addChunkToBatch(chunk)
AddChunkToBatch(w, chunk, maxBytes) ==
    LET w1 == [w EXCEPT !.batchChunks = Append(@, chunk),
                        !.batchBytes = @ + BufLen(chunk)]
    IN  IF w1.batchBytes >= maxBytes THEN FlushBatch(w1) ELSE w1

\* scheduleFlush that arms no timer
ScheduleFlushNever(w, targetMs) == w

\* scheduleFlush()
ScheduleFlush(w, targetMs) ==
    IF w.flushTimer # 0 THEN w ELSE [w EXCEPT !.flushTimer = targetMs]

WorkerRec ==
    [batchChunks |-> batchChunks, batchBytes |-> batchBytes,
     flushTimer |-> flushTimer, posted |-> posted]

WorkerSet(w) ==
    /\ batchChunks' = w.batchChunks
    /\ batchBytes' = w.batchBytes
    /\ flushTimer' = w.flushTimer
    /\ posted' = w.posted

\* onmessage, type 'chunk'
WorkerChunk(n) ==
    /\ wMsgs < MaxWorkerMsgs
    /\ LET chunk == IF n = 0 THEN <<>> ELSE <<<<wIn, n>>>>
       IN  /\ WorkerSet(ScheduleFlush(AddChunkToBatch(WorkerRec, chunk, APPEND_MAX_BYTES),
                                      APPEND_TARGET_MS))
           /\ wInput' = BufConcat(wInput, chunk)
    /\ wIn' = wIn + n
    /\ wLast' = "chunk"
    /\ wMsgs' = wMsgs + 1
    /\ UNCHANGED <<APPEND_TARGET_MS, APPEND_MAX_BYTES, urgentMode, wResetAt,
                   wPostedAtReset, wUrgentArgs>>

\* onmessage, type 'flush'
WorkerFlush ==
    /\ wMsgs < MaxWorkerMsgs
    /\ WorkerSet(FlushBatch(WorkerRec))
    /\ wLast' = "flush"
    /\ wMsgs' = wMsgs + 1
    /\ UNCHANGED <<APPEND_TARGET_MS, APPEND_MAX_BYTES, urgentMode, wIn, wInput, wResetAt,
                   wPostedAtReset, wUrgentArgs>>

\* a reset that leaves the pending timer armed
WorkerResetKeepTimer ==
    /\ wMsgs < MaxWorkerMsgs
    /\ batchChunks' = <<>>
    /\ batchBytes' = 0
    /\ urgentMode' = FALSE
    /\ wInput' = <<>>
    /\ wResetAt' = wIn
    /\ wPostedAtReset' = Len(posted)
    /\ wLast' = "reset"
    /\ wMsgs' = wMsgs + 1
    /\ UNCHANGED <<APPEND_TARGET_MS, APPEND_MAX_BYTES, flushTimer, posted, wIn, wUrgentArgs>>

\* onmessage, type 'reset'
WorkerReset ==
    /\ wMsgs < MaxWorkerMsgs
    /\ flushTimer' = 0
    /\ batchChunks' = <<>>
    /\ batchBytes' = 0
    /\ urgentMode' = FALSE
    /\ wInput' = <<>>
    /\ wResetAt' = wIn
    /\ wPostedAtReset' = Len(posted)
    /\ wLast' = "reset"
    /\ wMsgs' = wMsgs + 1
    /\ UNCHANGED <<APPEND_TARGET_MS, APPEND_MAX_BYTES, posted, wIn, wUrgentArgs>>

\* onmessage, type 'urgent_mode'
WorkerUrgentMode(enabled, targetMs, maxBytes) ==
    /\ wMsgs < MaxWorkerMsgs
    /\ urgentMode' = enabled
    /\ IF enabled
       THEN /\ APPEND_TARGET_MS' = IF targetMs # 0 THEN targetMs ELSE URGENT_TARGET_MS
            /\ APPEND_MAX_BYTES' = IF maxBytes # 0 THEN maxBytes ELSE URGENT_MAX_BYTES
       ELSE /\ APPEND_TARGET_MS' = NORMAL_TARGET_MS
            /\ APPEND_MAX_BYTES' = NORMAL_MAX_BYTES
    /\ wUrgentArgs' = <<targetMs, maxBytes>>
    /\ wLast' = "urgent_mode"
    /\ wMsgs' = wMsgs + 1
    /\ UNCHANGED <<batchChunks, batchBytes, flushTimer, posted, wIn, wInput, wResetAt,
                   wPostedAtReset>>

\* the callback of the timer armed by scheduleFlush
FlushTimerFires ==
    /\ flushTimer # 0
    /\ WorkerSet(FlushBatch([WorkerRec EXCEPT !.flushTimer = 0]))
    /\ UNCHANGED <<APPEND_TARGET_MS, APPEND_MAX_BYTES, urgentMode, wIn, wInput, wResetAt,
                   wPostedAtReset, wUrgentArgs, wLast, wMsgs>>

(***************************************************************************)
(* client/src/hooks/use-tts.ts in websocket mode: the refs of the hook,    *)
(* the MediaSource / SourceBuffer it drives and the tasks the browser has  *)
(* queued for it, in one record.  A batch is a Buffer of offsets of the    *)
(* binary stream received.  The playback position and the buffered ranges  *)
(* move with time, so a handler that reads them is given the difference    *)
(* `a` (buffered end - currentTime, in ms) it observes.                    *)
(***************************************************************************)
VARIABLES tts

hookVars == <<tts>>

LOW_WATER_MS == 400
HIGH_WATER_MS == 1800
HARD_LOW_MS == 250
GOAL_NORMAL_MS == 1150
GOAL_RAISED_MS == 1200
EOS_MARGIN_MS == 200
RESYNC_MAX_BYTES == 2048

MaxHookEvents == 4
\* appends the sink fails
MaxSinkErrors == 2
\* byteLength of the binary frames and worker batches delivered: longer than
\* the 2048 bytes recovery re-queues, so that a tail is shorter than its batch
\* and the tail of a tail is the whole of it
FrameSizes == {4096}
\* the values of (buffered end - currentTime) a handler may observe, in ms
AheadValues == {199, 200, 399, 400, 1150, 1200, 1800, 1801}
\* what sourceBuffer.appendBuffer does: starts the append, throws
\* QuotaExceededError, or throws another error
AppendOutcomes == {"ok", "quota", "throw"}

HookInit ==
    tts = [stopped |-> FALSE,        \* stoppedRef
           started |-> FALSE,        \* startedRef
           taskComplete |-> FALSE,   \* taskCompleteRef
           recovering |-> FALSE,     \* recoveringRef
           bufferGoalMs |-> GOAL_NORMAL_MS,  \* bufferGoalMsRef
           appendQueue |-> <<>>,     \* appendQueueRef
           lastBatch |-> <<>>,       \* lastBatchRef
           ms |-> "closed",          \* mediaSourceRef.current.readyState
           sb |-> FALSE,             \* sourceBufferRef.current is set
           updating |-> FALSE,       \* sourceBuffer.updating
           op |-> "none",            \* what the sink is doing: "append" | "removeAll" | "removePart"
           ranges |-> FALSE,         \* sourceBuffer.buffered.length > 0
           sbEvents |-> <<>>,        \* events queued on source buffers, cur: on the current one
           timers |-> 0,             \* pending setTimeout(.., 0) of the error listener
           watchdog |-> FALSE,       \* the 50 ms interval is running
           firstChunkSeen |-> FALSE, \* firstChunkSeenRef
           firstChunkBuffer |-> <<>>, \* firstChunkBufferRef, <<>> for null
           speaks |-> 0,             \* number of speak() calls: the current request
           serving |-> 0,            \* the request the server is streaming, 0 when idle
           rx |-> <<>>,              \* history: the binary frames received
           stoppedReqs |-> {},       \* history: the requests stop() was called in
           sniffs |-> 0,             \* history: container decisions since the last speak()
           sinks |-> 0,              \* history: source buffers created since the last speak()
           toWorker |-> <<>>,        \* messages posted to the worker, in order
           inBytes |-> 0,            \* history: bytes received in frames and batches
           epoch |-> 0,              \* history: number of speak() and stop() calls
           appended |-> <<>>,        \* history: the appendBuffer calls
           plays |-> <<>>,           \* history: the play() calls
           eos |-> <<>>,             \* history: the endOfStream() calls
           errs |-> 0,               \* history: recoveries started
           failed |-> 0,             \* history: appends the sink failed
           lastTU |-> [ahead |-> 0, goal |-> GOAL_NORMAL_MS, posted |-> 0, seen |-> FALSE],
                                     \* history: the last timeupdate
           n |-> 0]                  \* number of calls and messages handled

\* bufferedAheadMs(), observing a
BufferedAheadMs(c, a) == IF c.sb /\ c.ranges THEN a ELSE 0

\* tryEndOfStream without the 200 ms margin
TryEndOfStreamNoMargin(c, a) ==
    IF c.ms # "open" \/ ~c.sb \/ c.updating THEN c
    ELSE IF c.appendQueue # <<>> THEN c
    ELSE [c EXCEPT !.ms = "ended",
                   !.eos = Append(@, [current |-> TRUE,
                                      queueEmpty |-> c.appendQueue = <<>>,
                                      updating |-> c.updating,
                                      ranges |-> c.ranges,
                                      margin |-> a >= EOS_MARGIN_MS])]

\* tryEndOfStream(); the call is recorded with what held when it was made
TryEndOfStream(c, a) ==
    IF c.ms # "open" \/ ~c.sb \/ c.updating THEN c
    ELSE IF c.appendQueue # <<>> THEN c
    ELSE IF c.ranges /\ a < EOS_MARGIN_MS THEN c
    ELSE [c EXCEPT !.ms = "ended",
                   !.eos = Append(@, [current |-> TRUE,
                                      queueEmpty |-> c.appendQueue = <<>>,
                                      updating |-> c.updating,
                                      ranges |-> c.ranges,
                                      margin |-> a >= EOS_MARGIN_MS])]

\* sourceBuffer.remove(..) / appendBuffer(..) on an ended MediaSource reopen it
Reopen(state) == IF state = "ended" THEN "open" ELSE state

\* pumpAppendQueue that appends while the sink is updating
PumpUnguarded(c, a, outcome) ==
    IF ~c.sb \/ c.recovering THEN c
    ELSE IF c.appendQueue = <<>>
         THEN IF c.taskComplete THEN TryEndOfStream(c, a) ELSE c
         ELSE LET batch == Head(c.appendQueue)
                  c1 == [c EXCEPT !.appendQueue = Tail(@),
                                  !.lastBatch = batch,
                                  !.appended = Append(@, [batch |-> batch,
                                                          stopped |-> c.stopped,
                                                          updating |-> c.updating,
                                                          recovering |-> c.recovering,
                                                          outcome |-> outcome,
                                                          speaks |-> c.speaks])]
              IN  IF outcome = "ok"
                  THEN [c1 EXCEPT !.updating = TRUE, !.op = "append", !.ms = Reopen(@)]
                  ELSE IF outcome = "quota" /\ c.ranges /\ ~c.updating
                  THEN [c1 EXCEPT !.updating = TRUE, !.op = "removePart", !.ms = Reopen(@)]
                  ELSE c1

\* pumpAppendQueue(); the appendBuffer call is recorded with what held when
\* it was made
PumpAppendQueue(c, a, outcome) ==
    IF ~c.sb \/ c.updating \/ c.recovering THEN c
    ELSE IF c.appendQueue = <<>>
         THEN IF c.taskComplete THEN TryEndOfStream(c, a) ELSE c
         ELSE LET batch == Head(c.appendQueue)
                  c1 == [c EXCEPT !.appendQueue = Tail(@),
                                  !.lastBatch = batch,
                                  !.appended = Append(@, [batch |-> batch,
                                                          stopped |-> c.stopped,
                                                          updating |-> c.updating,
                                                          recovering |-> c.recovering,
                                                          outcome |-> outcome,
                                                          speaks |-> c.speaks])]
              IN  IF outcome = "ok"
                  THEN [c1 EXCEPT !.updating = TRUE, !.op = "append", !.ms = Reopen(@)]
                  ELSE IF outcome = "quota" /\ c.ranges
                  THEN [c1 EXCEPT !.updating = TRUE, !.op = "removePart", !.ms = Reopen(@)]
                  ELSE c1

\* maybeEmergencyFlush()
MaybeEmergencyFlush(c, a, outcome) ==
    IF BufferedAheadMs(c, a) <= HARD_LOW_MS
    THEN PumpAppendQueue([c EXCEPT !.toWorker = Append(@, [type |-> "flush"])], a, outcome)
    ELSE c

\* maybeStartPlayback without the startedRef guard
MaybeStartPlaybackAgain(c, a) ==
    IF c.stopped THEN c
    ELSE IF ~c.sb THEN c
    ELSE IF BufferedAheadMs(c, a) >= c.bufferGoalMs
         THEN [c EXCEPT !.started = TRUE,
                        !.plays = Append(@, [enough |-> BufferedAheadMs(c, a) >= c.bufferGoalMs,
                                             stopped |-> c.stopped,
                                             epoch |-> c.epoch])]
         ELSE c

\* maybeStartPlayback(); the play() call is recorded with what held when it
\* was made
MaybeStartPlayback(c, a) ==
    IF c.stopped THEN c
    ELSE IF c.started \/ ~c.sb THEN c
    ELSE IF BufferedAheadMs(c, a) >= c.bufferGoalMs
         THEN [c EXCEPT !.started = TRUE,
                        !.plays = Append(@, [enough |-> BufferedAheadMs(c, a) >= c.bufferGoalMs,
                                             stopped |-> c.stopped,
                                             epoch |-> c.epoch])]
         ELSE c

\* the events queued on a source buffer that speak() has since replaced
Orphaned(events) == [i \in 1..Len(events) |-> [events[i] EXCEPT !.cur = FALSE]]

\* sb.abort() on the current source buffer: ends an append in progress
\* (updateend follows); throws, changing nothing, while a removal runs
AbortAppend(c) ==
    IF c.updating /\ c.op = "append"
    THEN [c EXCEPT !.updating = FALSE, !.op = "none",
                   !.sbEvents = Append(@, [type |-> "updateend", cur |-> TRUE])]
    ELSE c

\* sb.remove(..) on the current source buffer, in a try block: throws while
\* the buffer is updating, else starts the removal `op`
StartRemove(c, op) ==
    IF c.updating THEN c
    ELSE [c EXCEPT !.updating = TRUE, !.op = op, !.ms = Reopen(@)]

\* speak(text) in websocket mode, with initMediaSource(); wsOpen: the socket
\* is open, so the speak message is sent
Speak(wsOpen) ==
    /\ tts.n < MaxHookEvents
    /\ tts' = [tts EXCEPT
          !.stopped = FALSE,
          !.appendQueue = <<>>,
          !.started = FALSE,
          !.taskComplete = FALSE,
          !.recovering = FALSE,
          !.lastBatch = <<>>,
          !.toWorker = Append(@, [type |-> "reset"]),
          \* initMediaSource: the previous MediaSource is ended when it is
          \* open (the call throws while its source buffer is updating)
          !.eos = IF tts.ms = "open" /\ ~tts.updating
                  THEN Append(@, [current |-> FALSE,
                                  queueEmpty |-> tts.appendQueue = <<>>,
                                  updating |-> tts.updating,
                                  ranges |-> tts.ranges,
                                  margin |-> FALSE])
                  ELSE @,
          !.sbEvents = IF tts.updating
                       THEN Append(Orphaned(@), [type |-> "updateend", cur |-> FALSE])
                       ELSE Orphaned(@),
          !.sb = FALSE,
          !.updating = FALSE,
          !.op = "none",
          !.ranges = FALSE,
          !.ms = "closed",
          !.watchdog = FALSE,
          !.firstChunkSeen = FALSE,
          !.firstChunkBuffer = <<>>,
          !.sniffs = 0,
          !.sinks = 0,
          !.speaks = @ + 1,
          \* the server takes the request unless it is still streaming one
          !.serving = IF wsOpen /\ @ = 0 THEN tts.speaks + 1 ELSE @,
          !.epoch = @ + 1,
          !.n = @ + 1]

\* stop()
Stop ==
    /\ tts.n < MaxHookEvents
    /\ LET c1 == [tts EXCEPT !.stopped = TRUE,
                             !.appendQueue = <<>>,
                             !.taskComplete = FALSE]
           \* try { if (sb.updating) sb.abort(); if (b.length) sb.remove(0, end) }
           c2 == IF ~c1.sb THEN c1
                 ELSE IF c1.updating /\ c1.op # "append" THEN c1
                 ELSE LET c3 == AbortAppend(c1)
                      IN  IF c3.ranges THEN StartRemove(c3, "removeAll") ELSE c3
       IN  tts' = [c2 EXCEPT !.started = FALSE, !.epoch = @ + 1, !.n = @ + 1,
                             !.stoppedReqs = @ \cup {tts.speaks}]

\* ws.onmessage with a binary frame of n bytes, which the server produced
\* for the request it is streaming; mimeOk: the container is recognised and
\* supported
WsBinary(n, mimeOk, a, outcome) ==
    /\ tts.n < MaxHookEvents
    /\ tts.serving # 0
    /\ LET batch == <<<<tts.inBytes, n>>>>
           c0 == [tts EXCEPT !.inBytes = @ + n, !.n = @ + 1,
                             !.rx = Append(@, [data |-> batch,
                                               req |-> tts.serving,
                                               speaks |-> tts.speaks,
                                               epoch |-> tts.epoch,
                                               mimeOk |-> mimeOk,
                                               stopped |-> tts.stopped])]
           \* no source buffer yet: the frame is kept as first chunk and sniffed
           c1 == [c0 EXCEPT !.firstChunkBuffer = batch, !.sniffs = @ + 1]
       IN  tts' =
             IF c0.stopped THEN c0
             ELSE IF ~c0.sb
             THEN IF ~mimeOk \/ c1.ms # "open" THEN c1
                  ELSE MaybeStartPlayback(
                         PumpAppendQueue([c1 EXCEPT !.sb = TRUE,
                                                    !.sinks = @ + 1,
                                                    !.updating = FALSE,
                                                    !.op = "none",
                                                    !.ranges = FALSE,
                                                    !.appendQueue = Append(@, batch),
                                                    !.watchdog = TRUE],
                                         a, outcome), a)
             ELSE MaybeEmergencyFlush(
                    MaybeStartPlayback(
                      PumpAppendQueue([c0 EXCEPT !.appendQueue = Append(@, batch)],
                                      a, outcome), a), a, outcome)

\* ws.onmessage with the task_complete message
WsTaskComplete(a) ==
    /\ tts.n < MaxHookEvents
    /\ tts.serving # 0
    /\ tts' = TryEndOfStream([tts EXCEPT !.taskComplete = TRUE, !.serving = 0,
                                         !.n = @ + 1], a)

\* worker.onmessage with a batch of n bytes
WorkerBatch(n, a, outcome) ==
    /\ tts.n < MaxHookEvents
    /\ tts.serving # 0
    /\ LET batch == <<<<tts.inBytes, n>>>>
           c0 == [tts EXCEPT !.inBytes = @ + n, !.n = @ + 1]
       IN  tts' =
             IF c0.stopped THEN c0
             ELSE MaybeEmergencyFlush(
                    MaybeStartPlayback(
                      PumpAppendQueue([c0 EXCEPT !.appendQueue = Append(@, batch)],
                                      a, outcome), a), a, outcome)

\* tryCreateSourceBuffer()
TryCreateSourceBuffer(c, mimeOk, a, outcome) ==
    IF c.ms # "open" \/ c.sb THEN c
    ELSE IF ~c.firstChunkSeen \/ c.firstChunkBuffer = <<>> THEN c
    ELSE IF ~mimeOk THEN c
    ELSE PumpAppendQueue([c EXCEPT !.sb = TRUE,
                                   !.sinks = @ + 1,
                                   !.updating = FALSE,
                                   !.op = "none",
                                   !.ranges = FALSE,
                                   !.appendQueue = Append(@, c.firstChunkBuffer),
                                   !.watchdog = TRUE],
                         a, outcome)

\* the sourceopen listener of the MediaSource
SourceOpen(mimeOk, a, outcome) ==
    /\ tts.ms = "closed"
    /\ tts' = TryCreateSourceBuffer([tts EXCEPT !.ms = "open"], mimeOk, a, outcome)

\* the sink finishes an append; grew: the data added a buffered range
AppendDone(grew) ==
    /\ tts.updating /\ tts.op = "append"
    /\ tts' = [tts EXCEPT !.updating = FALSE, !.op = "none",
                          !.ranges = @ \/ grew,
                          !.sbEvents = Append(@, [type |-> "updateend", cur |-> TRUE])]

\* the sink fails an append: error and updateend are queued and the
\* MediaSource is ended with a decode error
AppendError ==
    /\ tts.updating /\ tts.op = "append"
    /\ tts.failed < MaxSinkErrors
    /\ tts' = [tts EXCEPT !.updating = FALSE, !.op = "none",
                          !.failed = @ + 1,
                          !.ms = "ended",
                          !.sbEvents = @ \o <<[type |-> "error", cur |-> TRUE],
                                              [type |-> "updateend", cur |-> TRUE]>>]

\* the sink finishes a removal; emptied: no buffered range is left
RemoveDone(emptied) ==
    /\ tts.updating /\ tts.op \in {"removeAll", "removePart"}
    /\ tts' = [tts EXCEPT !.updating = FALSE, !.op = "none",
                          !.ranges = IF tts.op = "removeAll" \/ emptied THEN FALSE ELSE @,
                          !.sbEvents = Append(@, [type |-> "updateend", cur |-> TRUE])]

\* the last min(2048, length) bytes of the batch
ResyncTail(batch) ==
    LET len == BufLen(batch)
        take == IF RESYNC_MAX_BYTES < len THEN RESYNC_MAX_BYTES ELSE len
    IN  BufDrop(batch, len - take)

\* error listener that does not check recoveringRef
ErrorListenerReentrant(c, cur) ==
    LET c1 == [c EXCEPT !.recovering = TRUE, !.errs = @ + 1]
        c2 == IF ~cur THEN c1
              ELSE LET c3 == AbortAppend(c1)
                   IN  IF c3.ranges THEN StartRemove(c3, "removePart") ELSE c3
        c4 == IF c2.lastBatch # <<>>
              THEN [c2 EXCEPT !.appendQueue = <<ResyncTail(c2.lastBatch)>> \o @]
              ELSE c2
    IN  [c4 EXCEPT !.timers = @ + 1]

\* the error listener of a source buffer; cur: the buffer is the current one
ErrorListener(c, cur) ==
    IF c.recovering THEN c
    ELSE LET c1 == [c EXCEPT !.recovering = TRUE, !.errs = @ + 1]
             c2 == IF ~cur THEN c1
                   ELSE LET c3 == AbortAppend(c1)
                        IN  IF c3.ranges THEN StartRemove(c3, "removePart") ELSE c3
             c4 == IF c2.lastBatch # <<>>
                   THEN [c2 EXCEPT !.appendQueue = <<ResyncTail(c2.lastBatch)>> \o @]
                   ELSE c2
         IN  [c4 EXCEPT !.timers = @ + 1]

\* the browser dispatches the next event queued on a source buffer
SbEvent(a, outcome) ==
    /\ tts.sbEvents # <<>>
    /\ LET e == Head(tts.sbEvents)
           c0 == [tts EXCEPT !.sbEvents = Tail(@)]
       IN  tts' = IF e.type = "error"
                  THEN ErrorListener(c0, e.cur)
                  ELSE MaybeEmergencyFlush(PumpAppendQueue(c0, a, outcome), a, outcome)

\* the setTimeout(.., 0) callback of the error listener
RecoveryTimer(a, outcome) ==
    /\ tts.timers > 0
    /\ tts' = PumpAppendQueue([tts EXCEPT !.timers = @ - 1, !.recovering = FALSE],
                              a, outcome)

\* a tick of the 50 ms watchdog that finds the sink idle and the queue not empty
WatchdogTick(a, outcome) ==
    /\ tts.n < MaxHookEvents
    /\ tts.watchdog
    /\ ~tts.updating /\ tts.appendQueue # <<>>
    /\ tts' = PumpAppendQueue([tts EXCEPT !.n = @ + 1], a, outcome)

\* timeupdate listener that takes the low-water mark itself for low
TimeUpdateInclusive(a, outcome) ==
    /\ tts.n < MaxHookEvents
    /\ tts.appended # <<>>
    /\ LET msAhead == BufferedAheadMs(tts, a)
           c1 == MaybeEmergencyFlush([tts EXCEPT !.n = @ + 1], a, outcome)
           c2 == IF msAhead <= LOW_WATER_MS
                 THEN [c1 EXCEPT !.bufferGoalMs = GOAL_RAISED_MS,
                                 !.toWorker = Append(@, [type |-> "urgent_mode",
                                                         enabled |-> TRUE,
                                                         targetMs |-> URGENT_TARGET_MS,
                                                         maxBytes |-> URGENT_MAX_BYTES])]
                 ELSE IF msAhead > HIGH_WATER_MS
                 THEN [c1 EXCEPT !.bufferGoalMs = GOAL_NORMAL_MS,
                                 !.toWorker = Append(@, [type |-> "urgent_mode",
                                                         enabled |-> FALSE])]
                 ELSE c1
       IN  tts' = [c2 EXCEPT !.lastTU = [ahead |-> msAhead,
                                         goal |-> tts.bufferGoalMs,
                                         posted |-> Len(c1.toWorker),
                                         seen |-> TRUE]]

\* the timeupdate listener of the audio element
TimeUpdate(a, outcome) ==
    /\ tts.n < MaxHookEvents
    /\ tts.appended # <<>>
    /\ LET msAhead == BufferedAheadMs(tts, a)
           c1 == MaybeEmergencyFlush([tts EXCEPT !.n = @ + 1], a, outcome)
           c2 == IF msAhead < LOW_WATER_MS
                 THEN [c1 EXCEPT !.bufferGoalMs = GOAL_RAISED_MS,
                                 !.toWorker = Append(@, [type |-> "urgent_mode",
                                                         enabled |-> TRUE,
                                                         targetMs |-> URGENT_TARGET_MS,
                                                         maxBytes |-> URGENT_MAX_BYTES])]
                 ELSE IF msAhead > HIGH_WATER_MS
                 THEN [c1 EXCEPT !.bufferGoalMs = GOAL_NORMAL_MS,
                                 !.toWorker = Append(@, [type |-> "urgent_mode",
                                                         enabled |-> FALSE])]
                 ELSE c1
       IN  tts' = [c2 EXCEPT !.lastTU = [ahead |-> msAhead,
                                         goal |-> tts.bufferGoalMs,
                                         posted |-> Len(c1.toWorker),
                                         seen |-> TRUE]]

(***************************************************************************)
(* client/src/utils/websocket-url.ts: the module variables ws and          *)
(* connecting, the WebSockets getOrConnectWS has created (in order of      *)
(* creation, each with the 10 s timer and the promise of the call that     *)
(* created it) and the promises of the calls that wait for a connection.   *)
(***************************************************************************)
VARIABLES wsUrl

connVars == <<wsUrl>>

\* number of WebSockets created in one behaviour
MaxConnSockets == 3
\* number of getOrConnectWS calls in one behaviour
MaxConnCalls == 4

ConnInit ==
    wsUrl = [ws |-> 0,             \* ws: index into sockets, 0 = null
             connecting |-> FALSE, \* connecting
             sockets |-> <<>>,     \* the WebSockets created: readyState, the
                                   \*   timer and the promise of the creating call
             waiters |-> <<>>,     \* the promises of the calls that found connecting set
             returned |-> <<>>,    \* history: the sockets returned at once
             calls |-> 0]          \* number of getOrConnectWS calls

\* ws && ws.readyState === WebSocket.OPEN
WsIsOpen(c) == c.ws # 0 /\ c.sockets[c.ws].readyState = "OPEN"

\* resolve / reject of a promise: settling a settled promise changes nothing
Settle(p, how) == IF p = "pending" THEN how ELSE p

\* getOrConnectWS(url), url well formed
GetOrConnectWS ==
    /\ wsUrl.calls < MaxConnCalls
    /\ IF WsIsOpen(wsUrl)
       THEN wsUrl' = [wsUrl EXCEPT !.returned = Append(@, wsUrl.ws), !.calls = @ + 1]
       ELSE IF wsUrl.connecting
       THEN wsUrl' = [wsUrl EXCEPT
                !.waiters = Append(@, [promise |-> "pending", got |-> 0, interval |-> TRUE]),
                !.calls = @ + 1]
       ELSE /\ Len(wsUrl.sockets) < MaxConnSockets
            /\ wsUrl' = [wsUrl EXCEPT
                  !.connecting = TRUE,
                  !.sockets = Append(@, [readyState |-> "CONNECTING",
                                         timeout |-> TRUE,
                                         promise |-> "pending"]),
                  !.calls = @ + 1]

\* the 50 ms interval of a waiting call finds ws open
WaiterPoll(w) ==
    /\ wsUrl.waiters[w].interval
    /\ WsIsOpen(wsUrl)
    /\ wsUrl' = [wsUrl EXCEPT
          !.waiters[w].interval = FALSE,
          !.waiters[w].got = IF wsUrl.waiters[w].promise = "pending" THEN wsUrl.ws ELSE @,
          !.waiters[w].promise = Settle(@, "resolved")]

\* the 5 s timer of a waiting call: rejects, the interval keeps running
WaitTimeout(w) ==
    /\ wsUrl.waiters[w].promise = "pending"
    /\ wsUrl' = [wsUrl EXCEPT !.waiters[w].promise = "rejected"]

\* the 10 s timer of the call that created socket i
ConnectTimeout(i) ==
    /\ wsUrl.sockets[i].timeout
    /\ wsUrl' = [wsUrl EXCEPT
          !.connecting = FALSE,
          !.sockets[i].timeout = FALSE,
          !.sockets[i].promise = Settle(@, "rejected")]

\* s.onopen
SocketOpen(i) ==
    /\ wsUrl.sockets[i].readyState = "CONNECTING"
    /\ wsUrl' = [wsUrl EXCEPT
          !.sockets[i].readyState = "OPEN",
          !.sockets[i].timeout = FALSE,
          !.ws = i,
          !.connecting = FALSE,
          !.sockets[i].promise = Settle(@, "resolved")]

\* the connection of socket i fails: the browser sets readyState to CLOSED and
\* fires error and then close in one task (s.onerror, s.onclose)
SocketFails(i) ==
    /\ wsUrl.sockets[i].readyState \in {"CONNECTING", "OPEN", "CLOSING"}
    /\ wsUrl' = [wsUrl EXCEPT
          !.sockets[i].readyState = "CLOSED",
          !.sockets[i].timeout = FALSE,
          !.connecting = FALSE,
          !.sockets[i].promise = Settle(@, "rejected"),
          !.ws = IF @ = i THEN 0 ELSE @]

\* socket i closes cleanly (s.onclose alone)
SocketCloses(i) ==
    /\ wsUrl.sockets[i].readyState \in {"OPEN", "CLOSING"}
    /\ wsUrl' = [wsUrl EXCEPT
          !.sockets[i].readyState = "CLOSED",
          !.ws = IF @ = i THEN 0 ELSE @]

\* closeConnection()
CloseConnection ==
    /\ wsUrl' = [wsUrl EXCEPT
          !.sockets = IF WsIsOpen(wsUrl)
                      THEN [@ EXCEPT ![wsUrl.ws].readyState = "CLOSING"]
                      ELSE @,
          !.ws = 0,
          !.connecting = FALSE]

vars == <<wsVars, regVars, simpleVars, bridgeVars, retryVars, workerVars, hookVars,
          connVars>>

Init == WsInit /\ RegInit /\ SimpleInit /\ BridgeInit /\ RetryInit /\ WorkerInit /\ HookInit
        /\ ConnInit

\* a step of one component leaves the other components alone
WsFrame == UNCHANGED <<regVars, simpleVars, bridgeVars, retryVars, workerVars, hookVars, connVars>>
RegFrame == UNCHANGED <<wsVars, simpleVars, bridgeVars, retryVars, workerVars, hookVars, connVars>>
SimpleFrame == UNCHANGED <<wsVars, regVars, bridgeVars, retryVars, workerVars, hookVars, connVars>>
BridgeFrame == UNCHANGED <<wsVars, simpleVars, retryVars, workerVars, hookVars, connVars>>
RetryFrame == UNCHANGED <<wsVars, regVars, simpleVars, bridgeVars, workerVars, hookVars, connVars>>
WorkerFrame == UNCHANGED <<wsVars, regVars, simpleVars, bridgeVars, retryVars, hookVars, connVars>>
HookFrame == UNCHANGED <<wsVars, regVars, simpleVars, bridgeVars, retryVars, workerVars, connVars>>
ConnFrame == UNCHANGED <<wsVars, regVars, simpleVars, bridgeVars, retryVars, workerVars,
                         hookVars>>

WsNext ==
    \/ \E s \in Sockets : Connect(s) /\ WsFrame
    \/ \E s \in Sockets, sid \in SessionIds \cup {""}, m \in InitSettings :
          RecvInit(s, sid, m[1], m[2]) /\ WsFrame
    \/ \E i \in 1..Len(handlers) : InitResume(i) /\ WsFrame
    \/ \E s \in Sockets, m \in MsgSettings : RecvRefresh(s, m[1], m[2]) /\ WsFrame
    \/ \E i \in 1..Len(handlers) : RefreshResume(i) /\ WsFrame
    \/ \E s \in Sockets, hasText \in BOOLEAN : RecvSpeak(s, hasText) /\ WsFrame
    \/ \E i \in 1..Len(handlers) : SpeakResume(i) /\ WsFrame
    \/ \E i \in 1..Len(handlers), ok \in BOOLEAN : SynthSettle(i, ok) /\ WsFrame
    \/ \E s \in Sockets : CloseEvent(s) /\ WsFrame
    \/ \E s \in Sockets : ErrorEvent(s) /\ WsFrame
    \/ \E id \in SessionIds : CloseSessionWebSocket(id) /\ WsFrame
    \/ \E id \in SessionIds : VoiceCloned(id) /\ WsFrame
    \/ \E id \in SessionIds : SessionDeleted(id) /\ WsFrame

WsSpec == Init /\ [][WsNext]_vars

RegNext ==
    \/ \E ws \in Clients, id \in RegIds : RegisterClient(ws, id) /\ RegFrame
    \/ \E ws \in Clients : ClientCloseEvent(ws) /\ RegFrame

RegSpec == Init /\ [][RegNext]_vars

SimpleNext ==
    \/ \E creds \in BOOLEAN : Synthesize(creds) /\ SimpleFrame
    \/ ProviderOpen /\ SimpleFrame
    \/ \E m \in ProviderMsgs : ProviderMessage(m) /\ SimpleFrame
    \/ ProviderError /\ SimpleFrame
    \/ ProviderClose /\ SimpleFrame
    \/ SimpleTimeout /\ SimpleFrame
    \/ SimpleClientClosed /\ SimpleFrame

SimpleSpec == Init /\ [][SimpleNext]_vars

BridgeNext ==
    \/ \E creds \in BOOLEAN : StreamSynthesize(creds) /\ BridgeFrame
    \/ BridgeProviderOpen /\ BridgeFrame
    \/ \E m \in BridgeMsgs, ok \in BOOLEAN : BridgeProviderMessage(m, ok) /\ BridgeFrame
    \/ StdinDrain /\ BridgeFrame
    \/ BridgeProviderError /\ BridgeFrame
    \/ BridgeProviderClose /\ BridgeFrame
    \/ BridgeTimeout /\ BridgeFrame
    \/ FfmpegData /\ BridgeFrame
    \/ SendCallback /\ BridgeFrame
    \/ FfmpegStdoutEnd /\ BridgeFrame
    \/ FfmpegError /\ BridgeFrame
    \/ FfmpegClose /\ BridgeFrame
    \/ BridgeClientClose /\ BridgeFrame
    \/ BridgeClientError /\ BridgeFrame

BridgeSpec == Init /\ [][BridgeNext]_vars

\* the timer callback runs once its delay has passed, as does every other event
\* that is ready to be delivered
BridgeFairSpec == BridgeSpec /\ WF_vars(BridgeNext)

\* the sessionId argument of streamSynthesize, the id the client was registered with
BridgeSessionId == "s1"

\* number of registerClient calls made for the session
MaxRegs == 1

\* the sockets that register for the session: clientWs and one other
\* connection of the same visitor
RoutedClients == {BridgeClient, BridgeClient + 1}

\* streamSynthesize together with the Connection Registry: a socket that is
\* open registers for the session, once, at any time; a registered socket
\* other than clientWs closes at any time.  The call runs without a failure of
\* the subprocess or of the client socket, and settles before its timer fires.
RoutedNext ==
    \/ \E creds \in BOOLEAN : StreamSynthesize(creds) /\ BridgeFrame
    \/ BridgeProviderOpen /\ BridgeFrame
    \/ \E m \in BridgeMsgs, ok \in BOOLEAN : BridgeProviderMessage(m, ok) /\ BridgeFrame
    \/ StdinDrain /\ BridgeFrame
    \/ BridgeProviderError /\ BridgeFrame
    \/ BridgeProviderClose /\ BridgeFrame
    \/ FfmpegData /\ BridgeFrame
    \/ SendCallback /\ BridgeFrame
    \/ FfmpegStdoutEnd /\ BridgeFrame
    \/ FfmpegClose /\ BridgeFrame
    \/ BridgeClientClose /\ BridgeFrame
    \/ \E ws \in RoutedClients :
          /\ clientState[ws] = "OPEN"
          /\ <<ws, BridgeSessionId>> \notin closeListeners
          /\ Cardinality(closeListeners) < MaxRegs
          /\ RegisterClient(ws, BridgeSessionId)
          /\ UNCHANGED bridgeVars /\ BridgeFrame
    \/ \E ws \in RoutedClients \ {BridgeClient} :
          /\ <<ws, BridgeSessionId>> \in closeListeners
          /\ ClientCloseEvent(ws)
          /\ UNCHANGED bridgeVars /\ BridgeFrame

RoutedSpec == Init /\ [][RoutedNext]_vars

RetryNext ==
    \/ \E op \in RetryOps, creds \in BOOLEAN : SimpleRetryCall(op, creds) /\ RetryFrame
    \/ \E outcome \in OperationOutcomes : RunOperation(outcome) /\ RetryFrame
    \/ DelayElapsed /\ RetryFrame

RetrySpec == Init /\ [][RetryNext]_vars

\* no /ws/tts socket has connected yet
WsIdle == \A s \in Sockets : sockState[s] = "IDLE"

\* the calls to the provider: one non-streaming call through simpleRetry, or
\* the streaming calls of the /ws/tts handler
CallsNext ==
    \/ WsIdle /\ RetryNext
    \/ rPc = "idle" /\ WsNext

CallsSpec == Init /\ [][CallsNext]_vars

\* one synthesis call, made through either of the two services
SynthNext ==
    \/ br.phase = "idle" /\ SimpleNext
    \/ sPhase = "idle" /\ BridgeNext

SynthSpec == Init /\ [][SynthNext]_vars

(***************************************************************************)
(* Claims about SimpleTtsService.synthesize.                               *)
(***************************************************************************)
\* C8: with the client socket OPEN throughout, the bytes sent in binary frames
\* followed by the bytes still held in frameBuffer are the decoded fragments
\* in arrival order; once the fragments were followed by is_final, the binary
\* frames alone are the decoded fragments, and every binary frame precedes
\* the task_complete message.
C8_FramesEqualFragments ==
    (sClient = "OPEN" /\ ~sLateAudio) =>
        /\ BufConcat(BinaryBytes(clientOut), frameBuffer) = sReceived
        /\ sFinals >= 1 =>
              /\ frameBuffer = <<>>
              /\ BinaryBytes(clientOut) = sReceived
              /\ TaskCompletes # {}
              /\ \A i \in TaskCompletes : \A j \in 1..Len(clientOut) :
                    clientOut[j].type = "binary" => j < i

\* a chunk-short fragment and a two-chunk fragment, then is_final: two full
\* chunks, the remainder and task_complete have been sent
C8_Witness ==
    /\ sClient = "OPEN"
    /\ ~sLateAudio
    /\ sFinals = 1
    /\ BufLen(sReceived) = 3 * FRAME_CHUNK_SIZE - 1
    /\ Len(clientOut) = 4
    /\ BufLen(clientOut[1].data) = FRAME_CHUNK_SIZE
    /\ BufLen(clientOut[3].data) = FRAME_CHUNK_SIZE - 1
    /\ clientOut[4].type = "task_complete"

\* C9: the client receives at most one task_complete for the request, and none
\* once the request has been failed (rejected) by a provider socket error or
\* the timeout.
C9_AtMostOneTaskComplete ==
    /\ [](Cardinality(TaskCompletes) <= 1)
    /\ [][(sSettled # <<>> /\ Head(sSettled) = "reject")
            => TaskCompletesOf(clientOut') = TaskCompletesOf(clientOut)]_vars

(***************************************************************************)
(* Claims about both synthesis services                                    *)
(***************************************************************************)

\* C7: in SimpleTtsService.synthesize and in streamSynthesize the promise is
\* settled at most once, whatever completion signals arrive (is_final, provider
\* error, provider close, subprocess error, timeout), and a signal that arrives
\* after the promise is settled leaves its outcome as it was.
C7_SettledAtMostOnce ==
    /\ [](Len(sSettled) <= 1 /\ Len(br.settled) <= 1)
    /\ [][/\ sSettled # <<>> => sSettled' = sSettled
          /\ br.settled # <<>> => br'.settled = br.settled]_vars

\* a second completion signal reached handleError / handleComplete after the
\* promise of streamSynthesize was settled
C7_Witness == br.attempts = 2 /\ Len(br.settled) = 1 /\ br.listening

(***************************************************************************)
(* Claims about WebSocketTtsService.streamSynthesize                       *)
(***************************************************************************)

\* C10: every streamSynthesize call eventually settles its promise, in every
\* interleaving of client close / error, provider events, subprocess exit and
\* the 30 second timer.
C10_EventuallySettles == (br.phase = "called") ~> (br.settled # <<>>)

(***************************************************************************)
(* Further claims about SimpleTtsService.synthesize                        *)
(***************************************************************************)

\* C11: a synthesize call is settled no later than its 30 second timer: when
\* the timer fires on an unsettled call the provider socket is closed and the
\* promise is rejected; when it fires on a settled call nothing else changes.
C11_SettledByTimeout ==
    /\ [](sTimer = "fired" => sSettled # <<>>)
    /\ [][(sTimer = "pending" /\ sTimer' = "fired") =>
            IF sSettled = <<>>
            THEN /\ sSettled' = <<"reject">>
                 /\ minimaxState' \notin {"CONNECTING", "OPEN"}
            ELSE UNCHANGED <<sPhase, sCompleted, sSettled, frameBuffer, minimaxState,
                             sClient, clientOut, providerOut, sMsgs, sReceived,
                             sFinals, sLateAudio, sFailed, sCreds, sHeard>>]_vars

\* the timer fired on a call that nothing had settled, while the provider
\* socket was open
C11_Witness ==
    sTimer = "fired" /\ sSettled = <<"reject">> /\ sFinals = 0 /\ minimaxState = "CLOSING"

(***************************************************************************)
(* Further claims about WebSocketTtsService.streamSynthesize               *)
(***************************************************************************)

\* C12: once is_final has been received, and while the subprocess has not yet
\* exited, the session has not killed the subprocess, sent task_complete or
\* resolved the promise.  Runs in which the timer fired, the client socket
\* closed or an error path rejected the call are left out: the claim is about
\* provider close, subprocess output and subprocess exit.
C12_WaitsForSubprocessExit ==
    ( /\ br.finalListeners > 0
      /\ br.ff = "running"
      /\ br.timer # "fired"
      /\ clientState[BridgeClient] = "OPEN"
      /\ ~br.ffErrored
      /\ \A i \in 1..Len(br.settled) : br.settled[i] # "reject" )
    => /\ ~br.killed
       /\ br.settled = <<>>
       /\ \A i \in 1..Len(br.out) : br.out[i].type # "task_complete"

\* C13: every non-empty output chunk of the subprocess, and the final
\* task_complete, goes to the socket the registry maps to the client's session
\* id at the moment of sending, whenever that socket is OPEN.
C13_SendsToRegisteredSocket ==
    [][LET reg == Lookup(BridgeSessionId)
           regOpen == reg # 0 /\ clientState[reg] = "OPEN"
       IN  /\ (br'.chunks = br.chunks + 1 /\ regOpen)
               => br'.out = Append(br.out, [ws |-> reg, type |-> "binary"])
           /\ (~br.pendingFinalFlush /\ br'.pendingFinalFlush /\ regOpen)
               => /\ Len(br'.out) > Len(br.out)
                  /\ br'.out[Len(br'.out)] = [ws |-> reg, type |-> "task_complete"]]_vars

\* C14: when the provider socket has closed before any is_final was received,
\* the promise is rejected (never resolved) and the subprocess is torn down: its
\* input is ended and it was killed.
C14_CloseBeforeFinalRejects ==
    (br.listening /\ br.minimax = "CLOSED" /\ br.finalListeners = 0)
    => /\ br.settled = <<"reject">>
       /\ br.killed
       /\ br.stdin # "open"

\* C15: when the provider has answered the request with a failure (task_failed,
\* a non-zero base_resp.status_code) and no is_final was received, the call has
\* been rejected, and if no audio was received no binary frame was sent.
C15_ProviderFailureRejects ==
    (sFailed /\ sFinals = 0)
    => /\ sSettled = <<"reject">>
       /\ sReceived = <<>> => BinaryBytes(clientOut) = <<>>

\* C16: after ffmpeg.stdin.write returned false, no further fragment is written
\* to the subprocess input until its 'drain' event has fired.
C16_WaitsForDrain ==
    [][(br.needDrain /\ br.stdin = "open") => br'.ffInBytes = br.ffInBytes]_vars

\* C17: a provider fragment that decodes to zero bytes changes no byte counter
\* and is not written: whenever a fragment is counted in mmBytesIn while the
\* subprocess input is not destroyed, it had bytes and they were written.
C17_ZeroByteFragmentNotCounted ==
    [][(br'.mmHexIn # br.mmHexIn /\ br.stdin # "destroyed")
          => /\ br'.ffInBytes > br.ffInBytes
             /\ br'.ffOutBytes = br.ffOutBytes
             /\ br'.wsSentBytes = br.wsSentBytes]_vars

(***************************************************************************)
(* Further claims about both synthesis services                            *)
(***************************************************************************)

\* C18: a synthesize or streamSynthesize call made without provider
\* credentials is rejected and has opened no provider socket and spawned no
\* subprocess.
C18_NoCredentialsFailsFast ==
    /\ (sPhase = "called" /\ ~sCreds)
         => (minimaxState = "NONE" /\ sSettled = <<"reject">>)
    /\ (br.phase = "called" /\ ~br.creds)
         => (br.minimax = "NONE" /\ br.ff = "none" /\ br.settled = <<"reject">>)

(***************************************************************************)
(* Claims about simpleRetry                                                *)
(***************************************************************************)

\* C19: for generateSpeech and cloneVoice a missing-credentials error is not
\* retried: the operation body runs at most once and no retry delay is waited.
C19_ConfigErrorNotRetried ==
    ~rCreds => (Len(rLog) <= 1 /\ rWaited = 0)

\* the speak handlers of the /ws/tts handler that are inside synthesize
SynthHandlers(hs) == {i \in 1..Len(hs) : hs[i].kind = "speak" /\ hs[i].pc = "synth"}
\* the speak handlers that have not yet reached synthesize
PendingSpeaks(hs) == {i \in 1..Len(hs) : hs[i].kind = "speak" /\ hs[i].pc = "lookup"}

\* C20: simpleRetry runs its operation at most 3 times; it returns the value
\* of the first successful run and runs nothing after it; it waits the fixed
\* delay between a failed run and the next; after the third failure it throws
\* that last error.  A streaming synthesize call is started only by a speak
\* message's handler, once: no step starts one after a failure.
C20_AtMostThreeAttempts ==
    /\ [](/\ Len(rLog) <= MaxRetriesDefault + 1
          /\ \A i \in 1..(Len(rLog) - 1) : rLog[i] # "ok"
          /\ rPc = "returned" =>
                (rLog # <<>> /\ rLog[Len(rLog)] = "ok" /\ rResult = Len(rLog))
          /\ rPc = "thrown" =>
                (Len(rLog) = MaxRetriesDefault + 1 /\ rThrown = rLog[Len(rLog)])
          /\ rPc \in {"delay", "returned", "thrown"} =>
                rWaited = RetryDelayMs * (Len(rLog) - 1)
          /\ rPc = "attempt" => rWaited = RetryDelayMs * Len(rLog))
    /\ [][(rPc \in {"returned", "thrown"}) => (retryVars' = retryVars)]_vars
    /\ [][Cardinality(SynthHandlers(handlers')) > Cardinality(SynthHandlers(handlers))
            => /\ Len(handlers') = Len(handlers)
               /\ Cardinality(PendingSpeaks(handlers'))
                     = Cardinality(PendingSpeaks(handlers)) - 1]_vars

\* two failed runs, two delays, and a third run whose value is returned
C20_Witness ==
    rPc = "returned" /\ rResult = MaxRetriesDefault + 1 /\ rWaited = 2 * RetryDelayMs

(***************************************************************************)
(* Claims about the provider protocol of both synthesis services           *)
(***************************************************************************)

\* the message a session sends in answer to a provider event
Response(event) == IF event = "connected_success" THEN "task_start" ELSE "task_continue"
\* the answers to a sequence of handled provider events, in order
Responses(h) == [i \in 1..Len(h) |-> Response(h[i].event)]
\* the provider events that were handled while the provider socket was OPEN
HeardOpen(h) == SelectSeq(h, LAMBDA x : x.open)

\* C21 as stated: the messages sent to the provider are exactly one task_start
\* for each connected_success and one task_continue for each task_started, in
\* order, and nothing is sent before connected_success has been received.
C21_OneResponseEach ==
    /\ providerOut = Responses(sHeard)
    /\ br.providerOut = Responses(br.heard)
    /\ providerOut # <<>> => Head(sHeard).event = "connected_success"
    /\ br.providerOut # <<>> => Head(br.heard).event = "connected_success"

\* C21, amended: the messages sent to the provider are exactly one task_start
\* for each connected_success and one task_continue for each task_started that
\* was received while the provider socket was OPEN, in the order received;
\* nothing else is ever sent.
C21_OneResponseWhileOpen ==
    /\ providerOut = Responses(HeardOpen(sHeard))
    /\ br.providerOut = Responses(HeardOpen(br.heard))

\* both answers were sent, and a further protocol message arrived after the
\* session had closed the provider socket
C21_Witness ==
    /\ providerOut = <<"task_start", "task_continue">>
    /\ Len(sHeard) = 3 /\ ~sHeard[3].open

WorkerNext ==
    \/ \E n \in ChunkSizes : WorkerChunk(n) /\ WorkerFrame
    \/ WorkerFlush /\ WorkerFrame
    \/ WorkerReset /\ WorkerFrame
    \/ \E enabled \in BOOLEAN, t \in UrgentTargets, m \in UrgentMaxBytes :
          WorkerUrgentMode(enabled, t, m) /\ WorkerFrame
    \/ FlushTimerFires /\ WorkerFrame

WorkerSpec == Init /\ [][WorkerNext]_vars

\* the data of the batches posted since the last reset, in posting order
PostedData == [i \in 1..(Len(posted) - wPostedAtReset) |-> posted[wPostedAtReset + i].data]

(***************************************************************************)
(* C22: since the last reset (from the start when there was none), the     *)
(* batches posted, concatenated in posting order and followed by the       *)
(* accumulator, are exactly the chunks received, concatenated in arrival   *)
(* order: no byte is duplicated, dropped or reordered.  batchBytes is the  *)
(* size of the accumulator, and each batch is posted with its own size.    *)
(***************************************************************************)
C22_BatchingLossless ==
    /\ BufConcat(Merge(PostedData), Merge(batchChunks)) = wInput
    /\ batchBytes = BufLen(Merge(batchChunks))
    /\ \A i \in 1..Len(posted) : posted[i].batchBytes = BufLen(posted[i].data)

\* two batches posted, one by the byte threshold of urgent mode, and a chunk pending
C22_Witness ==
    /\ wPostedAtReset = 0
    /\ Len(posted) >= 2
    /\ batchChunks # <<>>
    /\ \E i \in 1..Len(posted) : posted[i].batchBytes = URGENT_MAX_BYTES

(***************************************************************************)
(* C23: right after a reset the accumulator is empty, no flush is          *)
(* scheduled and nothing was posted by the reset; and no batch posted      *)
(* after a reset holds a byte received before it.                          *)
(***************************************************************************)
C23_ResetClears ==
    /\ wLast = "reset" =>
          /\ batchChunks = <<>>
          /\ batchBytes = 0
          /\ flushTimer = 0
          /\ Len(posted) = wPostedAtReset
    /\ \A i \in (wPostedAtReset + 1)..Len(posted) :
          \A k \in 1..Len(posted[i].data) : posted[i].data[k][1] >= wResetAt

\* a reset dropped pending bytes (nothing had been posted yet), and a batch
\* was posted after it
C23_Witness ==
    /\ wResetAt > 0
    /\ wPostedAtReset = 0
    /\ Len(posted) > 0

(***************************************************************************)
(* C24: urgentMode = FALSE implies the thresholds are the normal 280 ms /  *)
(* 80 KB, and urgentMode = TRUE implies they are the urgent ones: those of *)
(* the urgent_mode message, 100 ms / 32 KB where it gave none.             *)
(***************************************************************************)
C24_ModeMatchesThresholds ==
    /\ ~urgentMode =>
          /\ APPEND_TARGET_MS = NORMAL_TARGET_MS
          /\ APPEND_MAX_BYTES = NORMAL_MAX_BYTES
    /\ urgentMode =>
          /\ APPEND_TARGET_MS = IF wUrgentArgs[1] # 0 THEN wUrgentArgs[1] ELSE URGENT_TARGET_MS
          /\ APPEND_MAX_BYTES = IF wUrgentArgs[2] # 0 THEN wUrgentArgs[2] ELSE URGENT_MAX_BYTES

\* what a handler can observe of (buffered end - currentTime): nothing is
\* buffered without a source buffer holding a range
Observable == IF tts.sb /\ tts.ranges THEN AheadValues ELSE {0}

\* what an appendBuffer call of the handler can do; no call is made while the
\* sink is updating or with nothing to append (pushes: the handler adds a
\* batch), and the quota is exceeded only by a sink that holds media
Outcomes(pushes) ==
    IF ~tts.updating /\ (pushes \/ tts.appendQueue # <<>>)
    THEN IF tts.sb /\ tts.ranges THEN AppendOutcomes ELSE AppendOutcomes \ {"quota"}
    ELSE {"ok"}

\* the container is sniffed only while there is no source buffer
Sniffed == IF tts.sb THEN {TRUE} ELSE BOOLEAN

HookNext ==
    \/ \E wsOpen \in BOOLEAN : Speak(wsOpen) /\ HookFrame
    \/ Stop /\ HookFrame
    \/ \E n \in FrameSizes, mimeOk \in Sniffed, a \in Observable, o \in Outcomes(TRUE) :
          WsBinary(n, mimeOk, a, o) /\ HookFrame
    \/ \E a \in Observable : WsTaskComplete(a) /\ HookFrame
    \/ \E n \in FrameSizes, a \in Observable, o \in Outcomes(TRUE) :
          WorkerBatch(n, a, o) /\ HookFrame
    \/ \E mimeOk \in BOOLEAN, a \in Observable, o \in Outcomes(TRUE) :
          SourceOpen(mimeOk, a, o) /\ HookFrame
    \/ \E grew \in BOOLEAN : AppendDone(grew) /\ HookFrame
    \/ AppendError /\ HookFrame
    \/ \E emptied \in BOOLEAN : RemoveDone(emptied) /\ HookFrame
    \/ \E a \in Observable, o \in Outcomes(FALSE) : SbEvent(a, o) /\ HookFrame
    \/ \E a \in Observable, o \in Outcomes(FALSE) : RecoveryTimer(a, o) /\ HookFrame
    \/ \E a \in Observable, o \in Outcomes(FALSE) : WatchdogTick(a, o) /\ HookFrame
    \/ \E a \in Observable, o \in Outcomes(FALSE) : TimeUpdate(a, o) /\ HookFrame

HookSpec == Init /\ [][HookNext]_vars

(***************************************************************************)
(* C25: after stop() no appendBuffer call is made until a new speak()      *)
(* clears the stopped flag: every appendBuffer call is made with           *)
(* stoppedRef false.                                                       *)
(***************************************************************************)
C25_NoAppendWhileStopped ==
    \A i \in 1..Len(tts.appended) : ~tts.appended[i].stopped

(***************************************************************************)
(* C26: play() is called at most once between a speak() and the next       *)
(* speak() or stop(), and every call is made with bufferedAheadMs at or    *)
(* above bufferGoalMs and with stoppedRef false.                           *)
(***************************************************************************)
C26_PlayOncePerRequest ==
    /\ \A i \in 1..Len(tts.plays) : tts.plays[i].enough /\ ~tts.plays[i].stopped
    /\ \A i, j \in 1..Len(tts.plays) : i # j => tts.plays[i].epoch # tts.plays[j].epoch

\* playback was started in the current request and a further batch arrived after it
C26_Witness ==
    /\ Len(tts.plays) = 1
    /\ tts.plays[1].epoch = tts.epoch
    /\ tts.started
    /\ Len(tts.appended) + Len(tts.appendQueue) >= 3

\* offset of the first byte of a batch, and the offset after its last byte
FirstOffset(b) == b[1][1]
EndOffset(b) == b[Len(b)][1] + b[Len(b)][2]

PostedByTimeUpdate ==
    IF Len(tts.toWorker) > tts.lastTU.posted
    THEN tts.toWorker[tts.lastTU.posted + 1]
    ELSE [type |-> "none"]

(***************************************************************************)
(* C29: bufferGoalMs is 1150 or 1200.  A timeupdate that observes less     *)
(* than 400 ms ahead sets it to 1200 and posts urgent_mode enabled to the  *)
(* worker; one that observes more than 1800 ms sets it to 1150 and posts   *)
(* urgent_mode disabled; one that observes a value in between leaves the   *)
(* goal as it was and posts no urgent_mode message.  (Only the timeupdate  *)
(* listener writes the goal or posts urgent_mode.)                         *)
(***************************************************************************)
C29_WaterMarks ==
    /\ tts.bufferGoalMs \in {GOAL_NORMAL_MS, GOAL_RAISED_MS}
    /\ ~tts.lastTU.seen =>
          /\ tts.bufferGoalMs = GOAL_NORMAL_MS
          /\ \A i \in 1..Len(tts.toWorker) : tts.toWorker[i].type # "urgent_mode"
    /\ tts.lastTU.seen /\ tts.lastTU.ahead < LOW_WATER_MS =>
          /\ tts.bufferGoalMs = GOAL_RAISED_MS
          /\ PostedByTimeUpdate = [type |-> "urgent_mode", enabled |-> TRUE,
                                   targetMs |-> URGENT_TARGET_MS,
                                   maxBytes |-> URGENT_MAX_BYTES]
    /\ tts.lastTU.seen /\ tts.lastTU.ahead > HIGH_WATER_MS =>
          /\ tts.bufferGoalMs = GOAL_NORMAL_MS
          /\ PostedByTimeUpdate = [type |-> "urgent_mode", enabled |-> FALSE]
    /\ tts.lastTU.seen /\ tts.lastTU.ahead >= LOW_WATER_MS
                       /\ tts.lastTU.ahead <= HIGH_WATER_MS =>
          /\ tts.bufferGoalMs = tts.lastTU.goal
          /\ PostedByTimeUpdate.type # "urgent_mode"

\* a timeupdate at exactly the low-water mark left the raised goal as it was
C29_Witness ==
    /\ tts.lastTU.seen
    /\ tts.lastTU.ahead = LOW_WATER_MS
    /\ tts.lastTU.goal = GOAL_RAISED_MS
    /\ tts.bufferGoalMs = GOAL_RAISED_MS

\* the error listener starts a recovery in this step
RecoveryStarts == tts'.errs > tts.errs

(***************************************************************************)
(* C30: a recovery starts only when none is in progress; it makes no       *)
(* appendBuffer call itself, leaves recoveringRef set with its timer       *)
(* pending, and puts on the head of the pending queue exactly the last     *)
(* min(2048, length) bytes of the most recently appended batch (nothing    *)
(* when there is none); no batch is appended while recoveringRef is set,   *)
(* and recoveringRef is cleared only by the timer callback on a later tick *)
(* (or by the next speak()).                                               *)
(***************************************************************************)
C30_ErrorRecovery ==
    /\ [](/\ \A i \in 1..Len(tts.appended) : ~tts.appended[i].recovering
          /\ tts.recovering => tts.timers > 0
          /\ tts.lastBatch # <<>> =>
                /\ tts.appended # <<>>
                /\ tts.lastBatch = tts.appended[Len(tts.appended)].batch)
    /\ [][/\ RecoveryStarts =>
                /\ ~tts.recovering /\ tts'.recovering
                /\ tts'.errs = tts.errs + 1
                /\ tts'.timers = tts.timers + 1
                /\ tts'.appended = tts.appended
                /\ IF tts.lastBatch = <<>>
                   THEN tts'.appendQueue = tts.appendQueue
                   ELSE /\ tts'.appendQueue # <<>>
                        /\ Tail(tts'.appendQueue) = tts.appendQueue
                        /\ EndOffset(Head(tts'.appendQueue)) = EndOffset(tts.lastBatch)
                        /\ BufLen(Head(tts'.appendQueue)) =
                              IF BufLen(tts.lastBatch) < RESYNC_MAX_BYTES
                              THEN BufLen(tts.lastBatch) ELSE RESYNC_MAX_BYTES
          /\ tts.recovering /\ tts'.recovering => tts'.appended = tts.appended
          /\ tts.recovering /\ ~tts'.recovering =>
                tts'.timers = tts.timers - 1 \/ tts'.epoch = tts.epoch + 1]_vars

\* two appends failed, the second error arrived during the recovery of the
\* first and was ignored, and after the timer the 2048-byte tail of the
\* 4096-byte batch was appended
C30_Witness ==
    /\ tts.failed = 2
    /\ tts.errs = 1
    /\ ~tts.recovering
    /\ tts.sbEvents = <<>>
    /\ Len(tts.appended) = 3
    /\ BufLen(tts.appended[2].batch) = 4096
    /\ BufLen(tts.appended[3].batch) = RESYNC_MAX_BYTES

(***************************************************************************)
(* C40: in every state the worker reaches, a non-empty accumulator implies *)
(* a pending flush timer, so what is accumulated is posted when the timer  *)
(* fires unless a reset comes first.                                       *)
(***************************************************************************)
C40_PendingBytesHaveTimer ==
    batchChunks # <<>> => flushTimer # 0

\* a chunk waits in the accumulator under the timer armed after an earlier
\* batch was posted
C40_Witness ==
    /\ batchChunks # <<>>
    /\ flushTimer # 0
    /\ Len(posted) >= 1
    /\ wLast = "chunk"

\* the batches that are on the pending queue or were handed to appendBuffer
Queued(c) ==
    {c.appendQueue[i] : i \in 1..Len(c.appendQueue)}
        \cup {c.appended[i].batch : i \in 1..Len(c.appended)}

(***************************************************************************)
(* C36: no frame is lost before the sink exists: once the source buffer of *)
(* a request has been created, every frame of a supported container that   *)
(* arrived since the last speak() or stop() is on the pending queue or has *)
(* been appended.                                                          *)
(***************************************************************************)
C36_FramesKeptUntilSinkExists ==
    tts.sb =>
        \A k \in 1..Len(tts.rx) :
            (tts.rx[k].epoch = tts.epoch /\ ~tts.rx[k].stopped /\ tts.rx[k].mimeOk)
                => tts.rx[k].data \in Queued(tts)

(***************************************************************************)
(* C31: between two speak() calls the container is decided at most once    *)
(* and at most one source buffer is created.                               *)
(***************************************************************************)
C31_SniffedOncePerStream ==
    /\ tts.sniffs <= 1
    /\ tts.sinks <= 1

(***************************************************************************)
(* C37: every batch that pumpAppendQueue takes off the pending queue is    *)
(* appended to the sink, and no batch is taken twice (the                  *)
(* resynchronisation tail apart).                                          *)
(***************************************************************************)
C37_EveryBatchAppendedOnce ==
    /\ \A i \in 1..Len(tts.appended) : tts.appended[i].outcome = "ok"
    /\ \A i, j \in 1..Len(tts.appended) :
          i < j => \/ tts.appended[i].batch # tts.appended[j].batch
                   \/ tts.appended[j].batch = ResyncTail(tts.appended[j - 1].batch)

\* the frames received that hold the first byte of the batch
FramesOf(c, batch) ==
    {k \in 1..Len(c.rx) : /\ FirstOffset(c.rx[k].data) <= FirstOffset(batch)
                          /\ FirstOffset(batch) < EndOffset(c.rx[k].data)}

(***************************************************************************)
(* C35: a frame that the server produced for a request in which stop() was *)
(* called is handed to appendBuffer only for the sink of that request,     *)
(* never for the sink of a later speak().                                  *)
(***************************************************************************)
C35_NoStaleFrameInNewSink ==
    \A i \in 1..Len(tts.appended) :
        \A k \in FramesOf(tts, tts.appended[i].batch) :
            tts.rx[k].req \in tts.stoppedReqs =>
                tts.rx[k].req = tts.appended[i].speaks

ConnNext ==
    \/ GetOrConnectWS /\ ConnFrame
    \/ \E w \in 1..Len(wsUrl.waiters) : WaiterPoll(w) /\ ConnFrame
    \/ \E w \in 1..Len(wsUrl.waiters) : WaitTimeout(w) /\ ConnFrame
    \/ \E i \in 1..Len(wsUrl.sockets) : ConnectTimeout(i) /\ ConnFrame
    \/ \E i \in 1..Len(wsUrl.sockets) : SocketOpen(i) /\ ConnFrame
    \/ \E i \in 1..Len(wsUrl.sockets) : SocketCloses(i) /\ ConnFrame
    \/ \E i \in 1..Len(wsUrl.sockets) : SocketFails(i) /\ ConnFrame
    \/ CloseConnection /\ ConnFrame

ConnSpec == Init /\ [][ConnNext]_vars

\* the sockets getOrConnectWS created that are connecting or open
LiveSockets == {i \in 1..Len(wsUrl.sockets) :
                   wsUrl.sockets[i].readyState \in {"CONNECTING", "OPEN"}}

\* C34: getOrConnectWS never creates a second WebSocket while one it created
\* earlier is still connecting or open: at most one of the sockets it created
\* is CONNECTING or OPEN at any time (a socket is live from its creation on, so
\* two live sockets mean the later was created while the earlier was live).
C34_OneLiveSocket == Cardinality(LiveSockets) <= 1

(***************************************************************************)
(* Claims about the error handling of server/websocket.ts.                 *)
(***************************************************************************)
\* C32: when the synthesis of an accepted speak fails, exactly one error
\* message is sent to its socket (delivered while the socket is OPEN),
\* isProcessing of the socket's connection is cleared, so that the next speak
\* with text on the socket is accepted, and nothing else changes: no other
\* socket is sent anything, no other connection record, no registry entry and
\* no socket state changes.
C32_FailureAnsweredOnce ==
    [][\A s \in Sockets :
          caught'[s] = caught[s] + 1 =>
              LET c == connectionInfo[s]
              IN  /\ out'[s] = IF sockState[s] = "OPEN" THEN Append(out[s], "error")
                               ELSE out[s]
                  /\ \A t \in Sockets \ {s} : out'[t] = out[t]
                  /\ c # 0
                  /\ connectionInfo' = connectionInfo
                  /\ conns' = [conns EXCEPT ![c].isProcessing = FALSE]
                  /\ activeConnections' = activeConnections
                  /\ sockState' = sockState]_vars

\* a synthesis on socket 1 failed and was answered; the next speak on the
\* socket was accepted and is in synthesis
C32_Witness ==
    /\ caught[1] = 1
    /\ out[1] = <<"ready", "error">>
    /\ sockState[1] = "OPEN"
    /\ InFlight(1) # {}
    /\ conns[connectionInfo[1]].isProcessing

\* the handling of a message on socket s answers with an error (delivered
\* while the socket is OPEN), closes the socket when `closes`, and changes no
\* registry entry, no connection record (so no isProcessing flag) and starts
\* no handler
Rejected(s, closes) ==
    /\ out' = [out EXCEPT ![s] = IF sockState[s] = "OPEN" THEN Append(@, "error") ELSE @]
    /\ sockState' = [sockState EXCEPT ![s] = IF closes THEN CloseSocket(@) ELSE @]
    /\ activeConnections' = activeConnections
    /\ connectionInfo' = connectionInfo
    /\ conns' = conns
    /\ \A j \in 1..Len(handlers') : \E k \in 1..Len(handlers) : handlers'[j] = handlers[k]

\* the session lookup of an init finds nothing; testIdsKnown: the ids the
\* handler accepts as test sessions do not count as unknown
UnknownSession(sid, testIdsKnown) ==
    storage[sid] = "absent" /\ (testIdsKnown => ~IsTestSession(sid))

InvalidRequestsRejected(testIdsKnown) ==
    \A s \in Sockets :
        /\ (\E m \in InitSettings : RecvInit(s, "", m[1], m[2])) => Rejected(s, TRUE)
        /\ \A i \in 1..Len(handlers) :
              (/\ handlers[i].sock = s
               /\ UnknownSession(handlers[i].sid, testIdsKnown)
               /\ InitResume(i)) => Rejected(s, TRUE)
        /\ (/\ connectionInfo[s] = 0
            /\ \/ \E m \in MsgSettings : RecvRefresh(s, m[1], m[2])
               \/ \E hasText \in BOOLEAN : RecvSpeak(s, hasText)) => Rejected(s, FALSE)
        /\ RecvSpeak(s, FALSE) => Rejected(s, FALSE)

\* C33 as stated: an init without sessionId or for a session the store does not
\* hold is answered with an error, the socket is closed and the registry is
\* left alone; a speak or refresh on a socket with no successful init and a
\* speak without text are answered with an error, start no synthesis and leave
\* isProcessing alone.
C33_InvalidRequestsRejected == [][InvalidRequestsRejected(FALSE)]_vars

\* C33, amended: the same, where an init for an id the handler accepts as a
\* test session is not an init for an unknown session.
C33_InvalidRequestsRejectedButTestIds == [][InvalidRequestsRejected(TRUE)]_vars

\* an init was rejected on socket 1 and a speak or refresh before any init on
\* socket 2; no connection record and no registry entry exists
C33_Witness ==
    /\ msgCount = 2
    /\ out[1] = <<"error">> /\ sockState[1] = "CLOSING" /\ connectionInfo[1] = 0
    /\ out[2] = <<"error">> /\ sockState[2] = "OPEN" /\ connectionInfo[2] = 0
    /\ conns = <<>>
    /\ handlers = <<>>
    /\ \A id \in SessionIds : activeConnections[id] = 0

(***************************************************************************)
(* Liveness of the hook.  The browser runs what it has queued: the         *)
(* sourceopen event, the completion of the sink's append or removal, the   *)
(* events queued on source buffers and the recovery timer.  Calls and      *)
(* messages from the server arrive or not.                                 *)
(***************************************************************************)
HookBrowser ==
    \/ \E mimeOk \in BOOLEAN, a \in Observable, o \in Outcomes(TRUE) :
          SourceOpen(mimeOk, a, o) /\ HookFrame
    \/ \E grew \in BOOLEAN : AppendDone(grew) /\ HookFrame
    \/ AppendError /\ HookFrame
    \/ \E emptied \in BOOLEAN : RemoveDone(emptied) /\ HookFrame
    \/ \E a \in Observable, o \in Outcomes(FALSE) : SbEvent(a, o) /\ HookFrame
    \/ \E a \in Observable, o \in Outcomes(FALSE) : RecoveryTimer(a, o) /\ HookFrame

HookFairSpec == HookSpec /\ WF_vars(HookBrowser)

\* every frame received was appended and the sink holds media and is idle,
\* with nothing left for the browser to dispatch
AllAppended ==
    /\ tts.sb /\ tts.ranges
    /\ tts.appendQueue = <<>>
    /\ ~tts.updating
    /\ tts.sbEvents = <<>>
    /\ tts.timers = 0

\* C38: a request whose frames have all been appended and which has received
\* task_complete without stop() eventually starts playback (or is stopped or
\* replaced by the next speak()).
C38_PlaybackEventuallyStarts ==
    (tts.taskComplete /\ ~tts.stopped /\ AllAppended)
        ~> (tts.started \/ tts.stopped \/ ~tts.taskComplete)

\* C39: once task_complete has been received and the queue has drained, the
\* media source is eventually finalized: it does not stay open (unless the
\* request is stopped or replaced by the next speak()).
C39_SinkEventuallyFinalized ==
    (tts.taskComplete /\ ~tts.stopped /\ AllAppended /\ tts.ms = "open")
        ~> (tts.ms # "open" \/ tts.stopped \/ ~tts.taskComplete)

====
